---- MODULE Spec2Model ----
(***************************************************************************)
(* Model of the Gitea backend adapter of netlify-cms                       *)
(* (packages/netlify-cms-backend-gitea/src/API.ts): the editorial workflow *)
(* built on branches, pull requests and labels, the rebase polling loop,   *)
(* the pagination cursor and the branch comparison.                        *)
(*                                                                         *)
(* A request to the remote and the handler's code up to its next request   *)
(* are one step: pc[p] names the request process p performs next.          *)
(***************************************************************************)
EXTENDS Naturals, Integers, Sequences, FiniteSets, TLC

(***************************************************************************)
(* Bounds of the model.                                                    *)
(***************************************************************************)
\* operations started in one behaviour of the workflow
MaxOps == 2

\* the files of a save, at most
MaxEntryFiles == 2

\* the listings of the second pass of getCommitItems in a save, at most
MaxListings == 2

\* pull requests the remote holds
MaxPRs == 2

\* the concurrent callers of the adapter
Procs == {"p1", "p2"}

(***************************************************************************)
(* Labels.  A label is kept split at the place a prefix ends: prefix is    *)
(* the CMS prefix for a CMS label and "" for any other label.              *)
(***************************************************************************)
cmsLabelPrefix == "netlify-cms/"

Statuses == {"draft", "pending_review", "pending_publish"}

\* labels that are not the adapter's
OtherLabels == {[prefix |-> "", name |-> "bug"]}

statusToLabel(status, labelPrefix) == [prefix |-> labelPrefix, name |-> status]

isCMSLabel(label, labelPrefix) == label.prefix = labelPrefix

labelToStatus(label, labelPrefix) == label.name

\* the elements of a sequence
Range(s) == {s[k] : k \in DOMAIN s}

\* number of CMS labels of a label list
CMSLabelCount(labels) ==
  Cardinality({k \in DOMAIN labels : isCMSLabel(labels[k], cmsLabelPrefix)})


(***************************************************************************)
(* Branches.  A branch name is the sequence of its characters.             *)
(***************************************************************************)
CMS_BRANCH_PREFIX == <<"c", "m", "s">>

\* this.branch
BaseBranch == <<"m", "a", "s", "t", "e", "r">>

\* `${collectionName}/${slug}`
generateContentKey(collectionName, slug) == collectionName \o <<"/">> \o slug

\* `${CMS_BRANCH_PREFIX}/${contentKey}`
branchFromContentKey(contentKey) == CMS_BRANCH_PREFIX \o <<"/">> \o contentKey

\* the one content key the workflow model follows
DraftBranch ==
  branchFromContentKey(
    generateContentKey(<<"p", "o", "s", "t", "s">>, <<"h", "e", "l", "l", "o">>))

\* String.startsWith
startsWith(str, prefix) ==
  Len(str) >= Len(prefix) /\ SubSeq(str, 1, Len(prefix)) = prefix

\* source_branch.startsWith(CMS_BRANCH_PREFIX)
IsCMSBranch(branch) == startsWith(branch, CMS_BRANCH_PREFIX)

\* getConflictingBranches of netlify-cms-lib-util, which
\* throwOnConflictingBranches calls with the branch of uploadAndCommit: the
\* names a branch of this name rules out, which are what stands before each
\* of its slashes (for cms/posts/hello: cms and cms/posts) and not the name
\* itself.  The library's text is not part of API.ts; this is what it does
\* when it is run
getConflictingBranches(branchName) ==
  LET slashes == SelectSeq([k \in DOMAIN branchName |-> k],
                           LAMBDA k : branchName[k] = "/")
  IN [n \in DOMAIN slashes |-> SubSeq(branchName, 1, slashes[n] - 1)]

(***************************************************************************)
(* The rebase status the remote reports.  merge_error "" is no error.      *)
(***************************************************************************)
MergeErrors == {"conflict"}

RebaseResponses ==
  [rebase_in_progress : BOOLEAN, merge_error : {""} \cup MergeErrors]

NoRebase == [rebase_in_progress |-> FALSE, merge_error |-> ""]

\* the poll budget of rebasePullRequest: the loop leaves once i > 10
PollLimit == 10

\* faulty variant: the loop is left twice as late
PollBudgetSpentLate(i) == i > PollLimit + PollLimit

PollBudgetSpent(i) == i > PollLimit

\* faulty variant: a merge error is not looked at
RebaseExitNoError(rebase) ==
  IF rebase.rebase_in_progress
    THEN [kind |-> "timeout", detail |-> ""]
    ELSE [kind |-> "ok", detail |-> ""]

\* what rebasePullRequest ends with once its loop is left with `rebase`
RebaseExit(rebase) ==
  IF rebase.rebase_in_progress
    THEN [kind |-> "timeout", detail |-> ""]
    ELSE IF rebase.merge_error # ""
      THEN [kind |-> "rebaseError", detail |-> rebase.merge_error]
      ELSE [kind |-> "ok", detail |-> ""]

(***************************************************************************)
(* The operations a caller starts.                                         *)
(*   persist      editorialWorkflowGit; status and unpublished are the     *)
(*                persist options (status "" is no status given)           *)
(*   updateStatus updateUnpublishedEntryStatus; status is the new status   *)
(*   publish      publishUnpublishedEntry                                  *)
(*   delete       deleteUnpublishedEntry                                   *)
(*   rebase       rebasePullRequest called on its own                      *)
(*   statuses     getStatuses                                              *)
(* files is the number of files of a save, and moves says that one of them *)
(* is a file of the branch with a new path.                                *)
(***************************************************************************)
SaveOps ==
  {o \in [name : {"persist"}, status : Statuses \cup {""}, unpublished : BOOLEAN,
          files : 0..MaxEntryFiles, moves : BOOLEAN] :
     /\ o.unpublished => o.status = ""
     /\ o.moves => o.files > 0}

\* the saves of one file that is not moved
OneFile(o) == o.files = 1 /\ ~o.moves

\* the first saves of callers side by side: of no file or one
OpenOps == {o \in SaveOps : ~o.unpublished /\ o.files <= 1 /\ ~o.moves}

\* the later saves of callers side by side: of one file
UpdateOps == {o \in SaveOps : o.unpublished /\ OneFile(o)}

StatusOps ==
  [name : {"updateStatus"}, status : Statuses, unpublished : {FALSE},
   files : {0}, moves : {FALSE}]

PlainOps ==
  [name : {"publish", "delete"}, status : {""}, unpublished : {FALSE},
   files : {0}, moves : {FALSE}]

\* all operations side by side: the first saves of one file and the later
\* saves of none
WorkflowOps ==
  {o \in SaveOps : IF o.unpublished THEN o.files = 0 ELSE OneFile(o)}
    \cup StatusOps \cup PlainOps

RebaseOp == [name |-> "rebase", status |-> "", unpublished |-> FALSE,
   files |-> 0, moves |-> FALSE]

\* getStatuses, the query of the status checks
StatusQueryOp == [name |-> "statuses", status |-> "", unpublished |-> FALSE,
   files |-> 0, moves |-> FALSE]

\* the operations on a draft that is there: all but the first save
LaterOps == UpdateOps \cup StatusOps \cup PlainOps \cup {StatusQueryOp}

NoOp == [name |-> "none", status |-> "", unpublished |-> FALSE,
   files |-> 0, moves |-> FALSE]

NoPull == [iid |-> 0, labels |-> <<>>]

VARIABLES
  initialWorkflowStatus, \* config.initialWorkflowStatus
  branchExists,          \* remote: the draft branch exists
  prs,                   \* remote: the pull requests, prs[iid]
  pc,                    \* per caller: the request it performs next, or "idle"
  op,                    \* per caller: the operation it runs
  pull,                  \* per caller: pullRequest, as getBranchPullRequest read it
  rebase,                \* per caller: rebasePullRequest's `rebase`
  i,                     \* per caller: rebasePullRequest's `i`
  reqs,                  \* per caller: the requests of the operation, in order
  orphans,               \* per caller: the calls of getCommitItems that go on
                         \* after their save has ended: [reqs, moves, pc]
  result,                \* per caller: how the last operation ended
  nOps                   \* operations started so far

wfVars ==
  <<initialWorkflowStatus, branchExists, prs, pc, op, pull, rebase, i, reqs, orphans,
    result, nOps>>

\* the cursor of listFiles and traverseCursor
VARIABLES
  lastLink,    \* where the last request went: a link, or undefined
  lastStatus,  \* the status of the last response, 0 before any
  lastHeaders, \* the headers of the response the cursor was derived from
  cursor,    \* the cursor the caller holds
  files,     \* the entries the last listing returned
  curResult  \* the last call and how it ended: "none", "listed", "traversed",
             \* "listError", "traverseError"

curVars == <<lastLink, lastStatus, lastHeaders, cursor, files, curResult>>

\* listAllFiles and the listing it reads
VARIABLES
  treeN, treePer, treeLast, treePat, \* the remote's listing
  laPc,         \* "idle", "fetch", "done", "failed"
  laLink,       \* the URL of the next request
  laCursor,     \* cursor
  laEntries,    \* entries
  laRequested,  \* the pages requested, in order
  laResult      \* the entries returned

laVars ==
  <<treeN, treePer, treeLast, treePat, laPc, laLink, laCursor, laEntries,
    laRequested, laResult>>

\* getDifferences and the comparison it reads
VARIABLES
  dfN, dfPat,  \* the remote's comparison
  dfTo, dfFrom, \* the arguments of the last call
  dfResult     \* its outcome: [kind, diffs]

dfVars == <<dfN, dfPat, dfTo, dfFrom, dfResult>>

\* getCommitItems
VARIABLES
  ciFiles,   \* files, the argument
  ciPc,      \* "probe", "expand", "done", "failed"
  ciProbes,  \* the existence probe of each file: its answer, once it has one
  ciExists,  \* what isFileExists made of each answer
  ciItems,   \* items
  ciQueue,   \* the items of the second pass that are still to be expanded
  ciListed,  \* the listings of the second pass, in order: [dir, files]
  ciError    \* the error the call threw, if it failed

ciVars == <<ciFiles, ciPc, ciProbes, ciExists, ciItems, ciQueue, ciListed, ciError>>

\* the commit of an update: editorialWorkflowGit after its reads
VARIABLES
  mkItems,   \* items, as getCommitItems returned them
  mkRaw,     \* the remote's comparison of the branch with the base
  mkPc,      \* "built", "sent", "failed"
  mkCommit   \* the items of the commit request

mkVars == <<mkItems, mkRaw, mkPc, mkCommit>>

\* uploadAndCommit on its own
VARIABLES
  ucOp,     \* the operation that calls it
  ucItems,  \* items
  ucPc,     \* "commit", "getBranch", "done"
  ucSent,   \* the requests sent, in order
  ucError,  \* the error of the commit request, if it failed
  ucResult  \* how the call ended

ucVars == <<ucOp, ucItems, ucPc, ucSent, ucError, ucResult>>

\* the requests on a pull request: where they are addressed
VARIABLES
  rqRepo,  \* config.repo, split at its slashes
  rqSent   \* the requests sent, in order

rqVars == <<rqRepo, rqSent>>

vars == <<wfVars, curVars, laVars, dfVars, ciVars, mkVars, ucVars, rqVars>>

Ok == [kind |-> "ok", detail |-> ""]

Running == [kind |-> "running", detail |-> ""]

Err(kind) == [kind |-> kind, detail |-> ""]

\* the operation of p ends with r
End(p, r) ==
  /\ pc' = [pc EXCEPT ![p] = "idle"]
  /\ result' = [result EXCEPT ![p] = r]

\* the operation of p goes on with request next
Goto(p, next) ==
  /\ pc' = [pc EXCEPT ![p] = next]
  /\ UNCHANGED result

Log(p, req, ok) ==
  reqs' = [reqs EXCEPT ![p] = Append(@, [req |-> req, ok |-> ok])]

\* the reads of a save go out several at a time.  A read is entered in reqs
\* when it is sent, and is ok once its answer has come and was good:
\*   probe    isFileExists of a file, in the first pass of getCommitItems
\*   compare  getDifferences of the branch, beside getCommitItems
\*   list     a page of listAllFiles, in the second pass of getCommitItems
Sent(names) == [k \in DOMAIN names |-> [req |-> names[k], ok |-> FALSE]]

InFlight(p, req) ==
  {k \in DOMAIN reqs[p] : reqs[p][k].req = req /\ ~reqs[p][k].ok}

\* what editorialWorkflowGit sends when it comes to its reads:
\* files.map sends the probes, and in an update getDifferences its request
FirstReads(o) ==
  Sent([k \in 1..o.files |-> "probe"] \o (IF o.unpublished THEN <<"compare">> ELSE <<>>))

\* and what it waits for then: the probes, with no file the comparison, and
\* in a first save with no file nothing, the commit is sent
Reading(o) ==
  IF o.files > 0 THEN "items" ELSE IF o.unpublished THEN "compare" ELSE "commit"

\* the request is answered, and the reads are sent
LogAndSend(p, req, sent) ==
  reqs' = [reqs EXCEPT ![p] = Append(@, [req |-> req, ok |-> TRUE]) \o sent]

Issued(p, req) == \E k \in DOMAIN reqs[p] : reqs[p][k].req = req

Count(p, req) == Cardinality({k \in DOMAIN reqs[p] : reqs[p][k].req = req})


(***************************************************************************)
(* rebasePullRequest                                                       *)
(***************************************************************************)
\* the code after the loop, and the caller's code after the call
AfterRebase(p, r) ==
  LET e == RebaseExit(r) IN
    IF e.kind = "ok"
      THEN IF op[p].name = "rebase" THEN End(p, Ok) ELSE Goto(p, Reading(op[p]))
      ELSE End(p, e)

\* the caller goes on to the reads of its save
SavesAfter(p, r) == RebaseExit(r).kind = "ok" /\ op[p].name # "rebase"

\* the answer r ends rebasePullRequest
RebaseEnds(p, req, r) ==
  /\ LogAndSend(p, req, IF SavesAfter(p, r) THEN FirstReads(op[p]) ELSE <<>>)
  /\ AfterRebase(p, r)

\* PUT pull/<iid>/rebase, and the loop's first test
RebaseRequest(p) ==
  /\ pc[p] = "rebase"
  /\ \/ /\ Log(p, "rebase", FALSE)
        /\ End(p, Err("apiError"))
        /\ UNCHANGED <<rebase, i>>
     \/ \E r \in RebaseResponses :
          /\ rebase' = [rebase EXCEPT ![p] = r]
          /\ i' = [i EXCEPT ![p] = 1]
          /\ IF r.rebase_in_progress
               THEN Log(p, "rebase", TRUE) /\ Goto(p, "poll")
               ELSE RebaseEnds(p, "rebase", r)
  /\ UNCHANGED <<orphans, initialWorkflowStatus, branchExists, prs, op, pull, nOps>>
  /\ UNCHANGED <<curVars, laVars, dfVars, ciVars, mkVars, ucVars, rqVars>>

\* one round of the loop: the wait, GET pull/<iid>, the break test and i++
RebasePoll(p) ==
  /\ pc[p] = "poll"
  /\ rebase[p].rebase_in_progress
  /\ \/ /\ Log(p, "poll", FALSE)
        /\ End(p, Err("apiError"))
        /\ UNCHANGED <<rebase, i>>
     \/ \E r \in RebaseResponses :
          /\ rebase' = [rebase EXCEPT ![p] = r]
          /\ IF ~r.rebase_in_progress \/ PollBudgetSpent(i[p])
               THEN RebaseEnds(p, "poll", r) /\ UNCHANGED i
               ELSE /\ Log(p, "poll", TRUE)
                    /\ Goto(p, "poll")
                    /\ i' = [i EXCEPT ![p] = i[p] + 1]
  /\ UNCHANGED <<orphans, initialWorkflowStatus, branchExists, prs, op, pull, nOps>>
  /\ UNCHANGED <<curVars, laVars, dfVars, ciVars, mkVars, ucVars, rqVars>>

(***************************************************************************)
(* The start of an operation: the call, up to its first request.           *)
(***************************************************************************)
FirstRequest(o) ==
  IF o.name = "rebase" THEN "rebase"
  ELSE IF o.name = "persist" /\ ~o.unpublished THEN Reading(o)
  ELSE "getPulls"

Start(p, o) ==
  /\ pc[p] = "idle"
  /\ nOps < MaxOps
  /\ nOps' = nOps + 1
  /\ op' = [op EXCEPT ![p] = o]
  /\ pc' = [pc EXCEPT ![p] = FirstRequest(o)]
  /\ reqs' = [reqs EXCEPT ![p] =
       IF o.name = "persist" /\ ~o.unpublished THEN FirstReads(o) ELSE <<>>]
  /\ result' = [result EXCEPT ![p] = Running]
  /\ pull' = [pull EXCEPT ![p] = NoPull]
  /\ rebase' = [rebase EXCEPT ![p] = NoRebase]
  /\ i' = [i EXCEPT ![p] = 0]
  /\ UNCHANGED <<orphans, initialWorkflowStatus, branchExists, prs>>
  /\ UNCHANGED <<curVars, laVars, dfVars, ciVars, mkVars, ucVars, rqVars>>

StartRebase(p) == Start(p, RebaseOp)


(***************************************************************************)
(* getPullRequests and getBranchPullRequest                                *)
(***************************************************************************)
\* faulty variant: the pull requests are not asked for by their state
getPullRequestsAnyState(sourceBranch) ==
  SelectSeq(prs, LAMBDA mr :
    /\ mr.target_branch = BaseBranch
    /\ (sourceBranch # <<>> => mr.source_branch = sourceBranch)
    /\ IsCMSBranch(mr.source_branch)
    /\ \E k \in DOMAIN mr.labels : isCMSLabel(mr.labels[k], cmsLabelPrefix))

\* the remote's answer (the open pull requests into this.branch, of
\* sourceBranch when one is given and of every branch when it is empty),
\* filtered: those of a CMS branch that carry a CMS label
getPullRequests(sourceBranch) ==
  SelectSeq(prs, LAMBDA mr :
    /\ mr.state = "opened"
    /\ mr.target_branch = BaseBranch
    /\ (sourceBranch # <<>> => mr.source_branch = sourceBranch)
    /\ IsCMSBranch(mr.source_branch)
    /\ \E k \in DOMAIN mr.labels : isCMSLabel(mr.labels[k], cmsLabelPrefix))

\* listUnpublishedBranches: the source branches of the pull requests of
\* every branch
listUnpublishedBranches ==
  LET pullRequests == getPullRequests(<<>>)
  IN [k \in DOMAIN pullRequests |-> pullRequests[k].source_branch]

NoPulls(pulls) == Len(pulls) <= 0

\* the request an operation makes once it holds its pull request
AfterPull(o) ==
  CASE o.name = "persist" -> "rebase"
    [] o.name = "updateStatus" -> "putLabels"
    [] o.name = "publish" -> "merge"
    [] o.name = "statuses" -> "getStatuses"
    [] OTHER -> "close"

\* GET pulls; the remote's order of the list is its own, so pulls[0] is any
\* of the pull requests found
GetBranchPullRequest(p) ==
  /\ pc[p] = "getPulls"
  /\ \/ /\ Log(p, "getPulls", FALSE)
        /\ End(p, Err("apiError"))
        /\ UNCHANGED pull
     \/ LET pulls == getPullRequests(DraftBranch) IN
          /\ Log(p, "getPulls", TRUE)
          /\ IF NoPulls(pulls)
               THEN End(p, Err("notUnderWorkflow")) /\ UNCHANGED pull
               ELSE \E k \in DOMAIN pulls :
                      /\ pull' = [pull EXCEPT ![p] =
                           [iid |-> pulls[k].iid, labels |-> pulls[k].labels]]
                      /\ Goto(p, AfterPull(op[p]))
  /\ UNCHANGED <<orphans, initialWorkflowStatus, branchExists, prs, op, rebase, i, nOps>>
  /\ UNCHANGED <<curVars, laVars, dfVars, ciVars, mkVars, ucVars, rqVars>>

(***************************************************************************)
(* getStatuses after getBranchPullRequest: getPullRequestStatues, GET the  *)
(* statuses of the head commit.  A read.  getStatuses maps the statuses    *)
(* with a function that reads GiteaCommitStatuses, a name the module       *)
(* neither declares nor imports: with a status in the list the call throws *)
(* a ReferenceError, with none it returns the empty list.                  *)
(***************************************************************************)
StatusCounts == {0, 1}

GetPullRequestStatues(p) ==
  /\ pc[p] = "getStatuses"
  /\ \/ /\ Log(p, "getStatuses", FALSE)
        /\ End(p, Err("apiError"))
     \/ \E statuses \in StatusCounts :
          /\ Log(p, "getStatuses", TRUE)
          /\ End(p, IF statuses = 0 THEN Ok ELSE Err("referenceError"))
  /\ UNCHANGED <<orphans, initialWorkflowStatus, branchExists, prs, op, pull, rebase, i, nOps>>
  /\ UNCHANGED <<curVars, laVars, dfVars, ciVars, mkVars, ucVars, rqVars>>

(***************************************************************************)
(* getCommitItems and, in an update, getDifferences beside it: the reads   *)
(* that build the commit.  They change nothing on the remote; the first of *)
(* them to fail ends the save, with the others still in flight.            *)
(***************************************************************************)
\* the code that follows the return of getCommitItems: the commit, once the
\* comparison of an update is there too
AfterItems(p) == IF InFlight(p, "compare") # {} THEN "compare" ELSE "commit"

\* a probe of the first pass is answered, or the listing of the second pass:
\* what may become of the call, with the requests sent so far, the pass it
\* is in and whether a file is moved.  After the last probe the second pass
\* asks for the files beside a moved file, and after a listing for the next
\* page or the files beside the next moved file when there is one
ItemsOutcomes(sent, pass, moves) ==
  LET awaited == IF pass = "items" THEN "probe" ELSE "list"
      lists == Cardinality({m \in DOMAIN sent : sent[m].req = "list"})
  IN UNION {
       LET answered == [sent EXCEPT ![k].ok = TRUE] IN
         {[reqs |-> sent, pc |-> "failed"]} \cup
         (IF \E m \in DOMAIN answered : answered[m].req = "probe" /\ ~answered[m].ok
            THEN {[reqs |-> answered, pc |-> "items"]}
            ELSE (IF moves /\ lists < MaxListings
                    THEN {[reqs |-> answered \o Sent(<<"list">>), pc |-> "children"]}
                    ELSE {}) \cup
                 (IF moves => lists > 0
                    THEN {[reqs |-> answered, pc |-> "returned"]}
                    ELSE {}))
       : k \in {m \in DOMAIN sent : sent[m].req = awaited /\ ~sent[m].ok}}

\* getCommitItems while the save waits for it
GetCommitItems(p) ==
  /\ pc[p] \in {"items", "children"}
  /\ \E out \in ItemsOutcomes(reqs[p], pc[p], op[p].moves) :
       /\ reqs' = [reqs EXCEPT ![p] = out.reqs]
       /\ CASE out.pc = "failed" -> End(p, Err("apiError"))
            [] out.pc = "returned" -> Goto(p, AfterItems(p))
            [] OTHER -> Goto(p, out.pc)
  /\ UNCHANGED <<orphans, initialWorkflowStatus, branchExists, prs, op, pull, rebase, i, nOps>>
  /\ UNCHANGED <<curVars, laVars, dfVars, ciVars, mkVars, ucVars, rqVars>>

\* the comparison of an update is answered.  When it fails the save ends at
\* once (Promise.all), and a getCommitItems that has not returned goes on
\* by itself.  With a moved file it has requests to send yet; without, it
\* sends nothing more and the answers to its probes change nothing
GetBranchDifferences(p) ==
  /\ pc[p] \in {"items", "children", "compare"}
  /\ \E k \in InFlight(p, "compare") :
       \/ /\ End(p, Err("apiError"))
          /\ orphans' = IF pc[p] # "compare" /\ op[p].moves
               THEN [orphans EXCEPT ![p] =
                       Append(@, [reqs |-> reqs[p], moves |-> op[p].moves, pc |-> pc[p]])]
               ELSE orphans
          /\ UNCHANGED reqs
       \/ /\ reqs' = [reqs EXCEPT ![p][k].ok = TRUE]
          /\ IF pc[p] = "compare" THEN Goto(p, "commit") ELSE UNCHANGED <<pc, result>>
          /\ UNCHANGED orphans
  /\ UNCHANGED <<initialWorkflowStatus, branchExists, prs, op, pull, rebase, i, nOps>>
  /\ UNCHANGED <<curVars, laVars, dfVars, ciVars, mkVars, ucVars, rqVars>>

\* getCommitItems after its save has ended: its probes and listings are
\* answered and its second pass sends its listings as before; what it
\* returns or throws nobody waits for, and with that the call is gone
GetCommitItemsOrphaned(p) ==
  /\ \E n \in DOMAIN orphans[p] :
       \E out \in ItemsOutcomes(orphans[p][n].reqs, orphans[p][n].pc, orphans[p][n].moves) :
         orphans' = [orphans EXCEPT ![p] =
           IF out.pc \in {"items", "children"}
             THEN [@ EXCEPT ![n] = [reqs |-> out.reqs, moves |-> @.moves, pc |-> out.pc]]
             ELSE SubSeq(@, 1, n - 1) \o SubSeq(@, n + 1, Len(@))]
  /\ UNCHANGED <<initialWorkflowStatus, branchExists, prs, pc, op, pull, rebase, i,
                 reqs, result, nOps>>
  /\ UNCHANGED <<curVars, laVars, dfVars, ciVars, mkVars, ucVars, rqVars>>

(***************************************************************************)
(* uploadAndCommit: POST repository/commits.  With newBranch the remote    *)
(* creates the branch and refuses when it exists already; without, it      *)
(* commits to the branch and refuses when there is none.                   *)
(***************************************************************************)
NewBranch(o) == o.name = "persist" /\ ~o.unpublished

\* faulty variant: the error of the commit is dropped and the caller goes on
AfterCommitFailureSwallowed(o, matches) == "createPull"

\* where a failed commit leads: the branch check, or the rethrow
AfterCommitFailure(o, matches) ==
  IF NewBranch(o) /\ matches THEN "getBranch" ELSE "throw"

UploadAndCommit(p) ==
  /\ pc[p] = "commit"
  /\ \/ /\ branchExists = ~NewBranch(op[p])
        /\ Log(p, "commit", TRUE)
        /\ branchExists' = TRUE
        /\ IF NewBranch(op[p]) THEN Goto(p, "createPull") ELSE End(p, Ok)
     \/ \E matches \in BOOLEAN :
          LET next == AfterCommitFailure(op[p], matches) IN
            /\ Log(p, "commit", FALSE)
            /\ UNCHANGED branchExists
            /\ IF next = "throw" THEN End(p, Err("apiError")) ELSE Goto(p, next)
  /\ UNCHANGED <<orphans, initialWorkflowStatus, prs, op, pull, rebase, i, nOps>>
  /\ UNCHANGED <<curVars, laVars, dfVars, ciVars, mkVars, ucVars, rqVars>>

\* throwOnConflictingBranches: a lookup of one of the conflicting names is
\* answered, the branch found or not; the lookups are entered as they are
\* answered.  With the last answer the conflict error is thrown when a
\* branch was found, and the commit's error when none was
ThrowOnConflictingBranches(p) ==
  /\ pc[p] = "getBranch"
  /\ \E found \in BOOLEAN :
       LET answered == Append(reqs[p], [req |-> "getBranch", ok |-> found])
           lookups == SelectSeq(answered, LAMBDA r : r.req = "getBranch")
       IN /\ reqs' = [reqs EXCEPT ![p] = answered]
          /\ IF Len(lookups) < Len(getConflictingBranches(DraftBranch))
               THEN UNCHANGED <<pc, result>>
               ELSE End(p, IF \E k \in DOMAIN lookups : lookups[k].ok
                             THEN Err("conflictingBranch") ELSE Err("apiError"))
  /\ UNCHANGED <<orphans, initialWorkflowStatus, branchExists, prs, op, pull, rebase, i, nOps>>
  /\ UNCHANGED <<curVars, laVars, dfVars, ciVars, mkVars, ucVars, rqVars>>


(***************************************************************************)
(* createPullRequest: POST pulls, from the draft branch to the base        *)
(* branch.  The remote needs the source branch to exist.                   *)
(***************************************************************************)
\* faulty variant: the persist options' status is not looked at
OpenStatusConfigOnly(options) == initialWorkflowStatus

\* options.status || this.initialWorkflowStatus
OpenStatus(options) ==
  IF options.status # "" THEN options.status ELSE initialWorkflowStatus

\* the labels parameter of the new pull request
CreateLabels(status) == <<statusToLabel(status, cmsLabelPrefix)>>

CreatePullRequest(p) ==
  /\ pc[p] = "createPull"
  /\ \/ /\ Log(p, "createPull", FALSE)
        /\ End(p, Err("apiError"))
        /\ UNCHANGED prs
     \/ /\ branchExists
        /\ Len(prs) < MaxPRs
        /\ Log(p, "createPull", TRUE)
        /\ prs' = Append(prs,
             [iid |-> Len(prs) + 1,
              source_branch |-> DraftBranch,
              target_branch |-> BaseBranch,
              state |-> "opened",
              labels |-> CreateLabels(OpenStatus(op[p]))])
        /\ End(p, Ok)
  /\ UNCHANGED <<orphans, initialWorkflowStatus, branchExists, op, pull, rebase, i, nOps>>
  /\ UNCHANGED <<curVars, laVars, dfVars, ciVars, mkVars, ucVars, rqVars>>

(***************************************************************************)
(* updateUnpublishedEntryStatus and updatePullRequestLabels: PUT           *)
(* pull/<iid> with the labels joined by ",".  No label of the model holds  *)
(* a ",", so the remote reads back the list that was joined.               *)
(***************************************************************************)
\* faulty variant: the new label is appended to all the labels read
NewLabelsAppend(labels, newStatus) ==
  labels \o <<statusToLabel(newStatus, cmsLabelPrefix)>>

NewLabels(labels, newStatus) ==
  SelectSeq(labels, LAMBDA label : ~isCMSLabel(label, cmsLabelPrefix))
    \o <<statusToLabel(newStatus, cmsLabelPrefix)>>

UpdatePullRequestLabels(p) ==
  /\ pc[p] = "putLabels"
  /\ \/ /\ Log(p, "putLabels", FALSE)
        /\ End(p, Err("apiError"))
        /\ UNCHANGED prs
     \/ /\ Log(p, "putLabels", TRUE)
        /\ prs' = [prs EXCEPT ![pull[p].iid].labels =
                     NewLabels(pull[p].labels, op[p].status)]
        /\ End(p, Ok)
  /\ UNCHANGED <<orphans, initialWorkflowStatus, branchExists, op, pull, rebase, i, nOps>>
  /\ UNCHANGED <<curVars, laVars, dfVars, ciVars, mkVars, ucVars, rqVars>>

(***************************************************************************)
(* publishUnpublishedEntry and mergePullRequest: PUT pull/<iid>/merge with *)
(* should_remove_source_branch.  The remote merges an open pull request.   *)
(***************************************************************************)
MergePullRequest(p) ==
  /\ pc[p] = "merge"
  /\ \/ /\ Log(p, "merge", FALSE)
        /\ End(p, Err("apiError"))
        /\ UNCHANGED <<prs, branchExists>>
     \/ /\ prs[pull[p].iid].state = "opened"
        /\ Log(p, "merge", TRUE)
        /\ prs' = [prs EXCEPT ![pull[p].iid].state = "merged"]
        /\ branchExists' = FALSE
        /\ End(p, Ok)
  /\ UNCHANGED <<orphans, initialWorkflowStatus, op, pull, rebase, i, nOps>>
  /\ UNCHANGED <<curVars, laVars, dfVars, ciVars, mkVars, ucVars, rqVars>>

(***************************************************************************)
(* deleteUnpublishedEntry: closePullRequest, then deleteBranch.            *)
(***************************************************************************)
\* faulty variant: the close request is not awaited, its failure is lost
AfterCloseAlways(ok) == "deleteBranch"

\* deleteUnpublishedEntry after closePullRequest: on to deleteBranch, or
\* the error thrown
AfterClose(ok) == IF ok THEN "deleteBranch" ELSE "throw"

ClosePullRequest(p) ==
  /\ pc[p] = "close"
  /\ \E ok \in BOOLEAN :
       /\ Log(p, "close", ok)
       /\ prs' = IF ok THEN [prs EXCEPT ![pull[p].iid].state = "closed"] ELSE prs
       /\ IF AfterClose(ok) = "throw"
            THEN End(p, Err("apiError"))
            ELSE Goto(p, AfterClose(ok))
  /\ UNCHANGED <<orphans, initialWorkflowStatus, branchExists, op, pull, rebase, i, nOps>>
  /\ UNCHANGED <<curVars, laVars, dfVars, ciVars, mkVars, ucVars, rqVars>>

\* deleteBranch uses request, not requestJSON: a response is not decoded, so
\* an answer with a failure status ends the call normally; only a request
\* that gets no answer throws
DeleteOutcomes == {"deleted", "status4xx", "noAnswer"}

DeleteBranch(p) ==
  /\ pc[p] = "deleteBranch"
  /\ \E out \in DeleteOutcomes :
       /\ out = "deleted" => branchExists
       /\ Log(p, "deleteBranch", out = "deleted")
       /\ branchExists' = IF out = "deleted" THEN FALSE ELSE branchExists
       /\ End(p, IF out = "noAnswer" THEN Err("apiError") ELSE Ok)
  /\ UNCHANGED <<orphans, initialWorkflowStatus, prs, op, pull, rebase, i, nOps>>
  /\ UNCHANGED <<curVars, laVars, dfVars, ciVars, mkVars, ucVars, rqVars>>

(***************************************************************************)
(* The remote's other users: a label that is not the adapter's is put on   *)
(* an open pull request.                                                   *)
(***************************************************************************)
RemoteLabelEdit ==
  /\ \E k \in DOMAIN prs : \E l \in OtherLabels :
       /\ prs[k].state = "opened"
       /\ l \notin Range(prs[k].labels)
       /\ prs' = [prs EXCEPT ![k].labels = <<l>> \o @]
  /\ UNCHANGED <<orphans, initialWorkflowStatus, branchExists, pc, op, pull, rebase, i,
                 reqs, result, nOps>>
  /\ UNCHANGED <<curVars, laVars, dfVars, ciVars, mkVars, ucVars, rqVars>>


(***************************************************************************)
(* The pagination cursor.                                                  *)
(*                                                                         *)
(* A header value is the sequence of its characters (<<>> for a header     *)
(* that is missing); a number read from it is [nan, val].  A URL of the    *)
(* tree listing is the page it names.  The Link header is the sequence of  *)
(* its <url>; rel="..." parts.                                             *)
(***************************************************************************)
Rels == {"first", "prev", "next", "last"}

NaN == [nan |-> TRUE, val |-> 0]

Num(n) == [nan |-> FALSE, val |-> n]

Digits == <<"0", "1", "2", "3", "4", "5", "6", "7", "8", "9">>

IsDigit(c) == \E d \in DOMAIN Digits : Digits[d] = c

DigitVal(c) == (CHOOSE d \in DOMAIN Digits : Digits[d] = c) - 1

RECURSIVE ParseDigits(_, _)
ParseDigits(str, acc) ==
  IF str = <<>> \/ ~IsDigit(Head(str))
    THEN acc
    ELSE ParseDigits(Tail(str), acc * 10 + DigitVal(Head(str)))

\* the white space parseInt passes over: the white space and the line
\* terminators of the language.  A character that cannot be written in a
\* string here is named by its code point
WhiteSpace ==
  {" ", "\t", "\n", "\r", "\f", "U+000B", "U+00A0", "U+FEFF", "U+2028", "U+2029",
   "U+1680", "U+2000", "U+2001", "U+2002", "U+2003", "U+2004", "U+2005",
   "U+2006", "U+2007", "U+2008", "U+2009", "U+200A", "U+202F", "U+205F",
   "U+3000"}

RECURSIVE TrimLeft(_)
TrimLeft(str) ==
  IF str # <<>> /\ Head(str) \in WhiteSpace THEN TrimLeft(Tail(str)) ELSE str

\* parseInt(str, 10): leading white space, an optional sign ("+" or "-")
\* and the leading digits; NaN without a digit there
parseInt(str) ==
  LET trimmed == TrimLeft(str)
      signed == trimmed # <<>> /\ Head(trimmed) \in {"+", "-"}
      neg == signed /\ Head(trimmed) = "-"
      body == IF signed THEN Tail(trimmed) ELSE trimmed
  IN IF body = <<>> \/ ~IsDigit(Head(body))
       THEN NaN
       ELSE Num(IF neg THEN 0 - ParseDigits(body, 0) ELSE ParseDigits(body, 0))

\* the decimal digits of a natural number, as a header carries it
RECURSIVE ToDigits(_)
ToDigits(n) ==
  IF n < 10 THEN <<Digits[n + 1]>> ELSE ToDigits(n \div 10) \o <<Digits[(n % 10) + 1]>>

\* a > b and a < b of two numbers: false when either is NaN
Gt(a, b) == ~a.nan /\ ~b.nan /\ a.val > b.val

Lt(a, b) == ~a.nan /\ ~b.nan /\ a.val < b.val

\* parseLinkHeader: the map from rel to url; a rel given twice keeps its last
parseLinkHeader(link) ==
  [r \in {link[k].rel : k \in DOMAIN link} |->
     link[CHOOSE k \in DOMAIN link :
            /\ link[k].rel = r
            /\ \A m \in DOMAIN link : link[m].rel = r => m <= k].url]

\* faulty variant: next and last are offered on the last page too
ActionAllowedLoose(key, page, pageCount) ==
  \/ key = "prev" /\ Gt(page, Num(1))
  \/ key = "next" /\ ~Gt(page, pageCount)
  \/ key = "first" /\ Gt(page, Num(1))
  \/ key = "last" /\ ~Gt(page, pageCount)

\* the test of getCursorFromHeaders on a key of the links
ActionAllowed(key, page, pageCount) ==
  \/ key = "prev" /\ Gt(page, Num(1))
  \/ key = "next" /\ Lt(page, pageCount)
  \/ key = "first" /\ Gt(page, Num(1))
  \/ key = "last" /\ Lt(page, pageCount)

\* faulty variant: every relation is a candidate, linked or not
CandidateKeysAll(links) == Rels

\* Map(links).keySeq()
CandidateKeys(links) == DOMAIN links

getCursorFromHeaders(headers) ==
  LET page == parseInt(headers.page)
      pageCount == parseInt(headers.pageCount)
      pageSize == parseInt(headers.pageSize)
      count == parseInt(headers.count)
      links == parseLinkHeader(headers.link)
  IN [actions |-> {key \in CandidateKeys(links) : ActionAllowed(key, page, pageCount)},
      meta |-> [page |-> page, count |-> count, pageSize |-> pageSize,
                pageCount |-> pageCount],
      links |-> links]

\* type === 'blob'
IsFile(entry) == entry.type = "blob"

\* fetchCursorAndEntries on a response: the cursor of its headers and its
\* decoded entries; a 404 decodes to no entries, another failure throws
fetchCursorAndEntries(resp) ==
  IF resp.status = 200
    THEN [ok |-> TRUE, cursor |-> getCursorFromHeaders(resp.headers), entries |-> resp.body]
    ELSE IF resp.status = 404
      THEN [ok |-> TRUE, cursor |-> getCursorFromHeaders(resp.headers), entries |-> <<>>]
      ELSE [ok |-> FALSE, cursor |-> getCursorFromHeaders(resp.headers), entries |-> <<>>]


(***************************************************************************)
(* listFiles and traverseCursor against a remote that answers with any     *)
(* headers.                                                                *)
(***************************************************************************)
\* header values a remote may send for X-Page
PageValues == {<<"1">>, <<"2">>, <<"x">>}

\* and for X-Total-Pages
PageCountValues == {<<>>, <<"1">>, <<"3">>}

\* the Link headers a remote may send: any of the relations, each once
LinkOf(rs) ==
  LET Part(r) ==
        IF r \in rs
          THEN <<[rel |-> r,
                  url |-> CASE r = "first" -> 1 [] r = "prev" -> 2
                            [] r = "next" -> 3 [] OTHER -> 4]>>
          ELSE <<>>
  IN Part("first") \o Part("prev") \o Part("next") \o Part("last")

LinkHeaders == {LinkOf(rs) : rs \in SUBSET Rels}

\* a file and a directory
Bodies ==
  {<<[id |-> <<1, 1>>, type |-> "blob"], [id |-> <<1, 2>>, type |-> "tree"]>>}

AnyHeaders ==
  [page : PageValues, pageCount : PageCountValues, pageSize : {<<"2">>},
   count : {<<"5">>}, link : LinkHeaders]

NoHeaders ==
  [page |-> <<>>, pageCount |-> <<>>, pageSize |-> <<>>, count |-> <<>>,
   link |-> <<>>]

AnyResponses ==
  [status : {200}, headers : AnyHeaders, body : Bodies]
    \cup [status : {404, 500}, headers : {NoHeaders}, body : {<<>>}]

NoCursor == getCursorFromHeaders(NoHeaders)


\* the URL of a request: a link of a cursor, or undefined when the cursor
\* has no link for the action; the listing's own URL stands as link 0
Link(url) == [defined |-> TRUE, url |-> url]

Undefined == [defined |-> FALSE, url |-> 0]

TreeLink == Link(0)

\* the caller gets what fetchCursorAndEntries made of the response
Listed(resp, done, failed) ==
  \E r \in {fetchCursorAndEntries(resp)} :
    /\ lastStatus' = resp.status
    /\ IF r.ok
         THEN /\ lastHeaders' = resp.headers
              /\ cursor' = r.cursor
              /\ files' = SelectSeq(r.entries, IsFile)
              /\ curResult' = done
         ELSE /\ curResult' = failed
              /\ UNCHANGED <<lastHeaders, cursor, files>>

ListFiles ==
  /\ lastLink' = TreeLink
  /\ \E resp \in AnyResponses : Listed(resp, "listed", "listError")
  /\ UNCHANGED <<wfVars, laVars, dfVars, ciVars, mkVars, ucVars, rqVars>>

\* the caller names any action; the link of the action is requested as it
\* is read from the cursor, undefined when the cursor has none, and the call
\* follows the answer
TraverseCursor ==
  /\ \E action \in Rels :
       /\ lastLink' = IF action \in DOMAIN cursor.links
                        THEN Link(cursor.links[action])
                        ELSE Undefined
       /\ \E resp \in AnyResponses : Listed(resp, "traversed", "traverseError")
  /\ UNCHANGED <<wfVars, laVars, dfVars, ciVars, mkVars, ucVars, rqVars>>

(***************************************************************************)
(* listAllFiles against a tree listing of treeN pages.  Page k < treeN     *)
(* holds treePer entries and page treeN holds treeLast; entry j of page k  *)
(* is a directory when treePat divides k + j.  Every page carries the      *)
(* pagination headers and links page k to first, prev, next and last.      *)
(***************************************************************************)
MaxPages == 5

MaxPerPage == 2

TreePatterns == {0, 1, 2, 3}


PageLen(k) == IF k < treeN THEN treePer ELSE treeLast

PageEntries(k) ==
  [j \in 1..PageLen(k) |->
     [id |-> <<k, j>>,
      type |-> IF treePat # 0 /\ (k + j) % treePat = 0 THEN "tree" ELSE "blob"]]

PageLinks(k) ==
  <<[rel |-> "first", url |-> 1]>>
    \o (IF k > 1 THEN <<[rel |-> "prev", url |-> k - 1]>> ELSE <<>>)
    \o (IF k < treeN THEN <<[rel |-> "next", url |-> k + 1]>> ELSE <<>>)
    \o <<[rel |-> "last", url |-> treeN]>>

\* the remote's answer to a request for page k
TreeResponse(k) ==
  IF k \in 1..treeN
    THEN [status |-> 200,
          headers |-> [page |-> ToDigits(k),
                       pageCount |-> ToDigits(treeN),
                       pageSize |-> ToDigits(treePer),
                       count |-> ToDigits((treeN - 1) * treePer + treeLast),
                       link |-> PageLinks(k)],
          body |-> PageEntries(k)]
    ELSE [status |-> 404, headers |-> NoHeaders, body |-> <<>>]

\* faulty variant: the loop is never entered
HasNextNever(c) == FALSE

\* cursor && cursor.actions.has('next')
HasNext(c) == "next" \in c.actions

\* the call: the first request names no page, which is page 1
ListAllStart ==
  /\ laPc = "idle"
  /\ laPc' = "fetch"
  /\ laLink' = 1
  /\ UNCHANGED <<treeN, treePer, treeLast, treePat, laCursor, laEntries,
                 laRequested, laResult>>
  /\ UNCHANGED <<wfVars, curVars, dfVars, ciVars, mkVars, ucVars, rqVars>>

\* one request of the listing and the code up to the next one
ListAllFetch ==
  /\ laPc = "fetch"
  /\ LET r == fetchCursorAndEntries(TreeResponse(laLink))
         all == laEntries \o r.entries
     IN /\ laRequested' = Append(laRequested, laLink)
        /\ IF ~r.ok
             THEN laPc' = "failed" /\ UNCHANGED <<laLink, laCursor, laEntries, laResult>>
             ELSE /\ laEntries' = all
                  /\ laCursor' = r.cursor
                  /\ IF HasNext(r.cursor)
                       THEN /\ laLink' = r.cursor.links["next"]
                            /\ UNCHANGED <<laPc, laResult>>
                       ELSE /\ laPc' = "done"
                            /\ laResult' = SelectSeq(all, IsFile)
                            /\ UNCHANGED laLink
  /\ UNCHANGED <<treeN, treePer, treeLast, treePat>>
  /\ UNCHANGED <<wfVars, curVars, dfVars, ciVars, mkVars, ucVars, rqVars>>


(***************************************************************************)
(* getDifferences.  The remote's comparison of two distinct branches       *)
(* reports dfN changed paths; what kind of change path k is follows from   *)
(* dfPat.  A path is its stem and its extension; a diff payload is the     *)
(* sequence of its words.                                                  *)
(***************************************************************************)
\* the ceiling of getDifferences
DiffLimit == 1000

\* how far around the ceiling the comparisons of the model go
DiffSpan == 2

DiffCounts == {0, 1, 2} \cup ((DiffLimit - DiffSpan)..(DiffLimit + DiffSpan))

DiffPatterns == 0..4

Branches == {BaseBranch, DraftBranch}

NoPath == [stem |-> 0, ext |-> <<>>]

\* the extensions of the files compared, and the payloads of a comparison:
\* "Binary files differ" and a hunk of text
Md == <<"m", "d">>

Png == <<"p", "n", "g">>

Svg == <<"s", "v", "g">>

BinaryPayload ==
  <<"B", "i", "n", "a", "r", "y", " ", "f", "i", "l", "e", "s", " ",
    "d", "i", "f", "f", "e", "r">>

TextPayload == <<"@", "@", " ", "-", "1", " ", "+", "1">>

\* a path as the string the remote sends: the stem's numeral, a dot and the
\* extension; the empty string for no path
PathString(path) ==
  IF path = NoPath THEN <<>> ELSE ToDigits(path.stem) \o <<".">> \o path.ext

\* the characters the dot of a pattern without the s flag does not match:
\* line feed, carriage return, line separator and paragraph separator
LineTerminators == {"\n", "\r", "U+2028", "U+2029"}

\* /.svg$/.test(str): any character but a line terminator, then Svg at the
\* end of the string (no m flag: $ is the end of the input only)
EndsDotSvg(str) ==
  /\ Len(str) >= 4
  /\ SubSeq(str, Len(str) - 2, Len(str)) = Svg
  /\ str[Len(str) - 3] \notin LineTerminators


\* the k-th entry of the remote's comparison
RemoteDiff(k) ==
  LET c == (k + dfPat) % 5
      ext == IF c = 4 THEN Png ELSE IF k % 3 = 0 THEN Svg ELSE Md
  IN [old_path |-> IF c = 0 THEN NoPath ELSE [stem |-> k, ext |-> ext],
      new_path |-> IF c = 1 THEN NoPath
                   ELSE IF c = 2 THEN [stem |-> k + DiffLimit + DiffSpan, ext |-> ext]
                   ELSE [stem |-> k, ext |-> ext],
      new_file |-> c = 0,
      deleted_file |-> c = 1,
      renamed_file |-> c = 2,
      diff |-> IF c = 4 THEN BinaryPayload ELSE TextPayload]

RemoteDiffs == [k \in 1..dfN |-> RemoteDiff(k)]

\* faulty variant: the ceiling itself is let through
DiffLimitReachedAbove(n) == n > DiffLimit

\* result.diffs.length >= 1000
DiffLimitReached(n) == n >= DiffLimit

\* one entry of the result
DiffEntry(d) ==
  [status |-> IF d.new_file THEN "added"
              ELSE IF d.deleted_file THEN "deleted"
              ELSE IF d.renamed_file THEN "renamed"
              ELSE "modified",
   oldPath |-> d.old_path,
   newPath |-> d.new_path,
   newFile |-> d.new_file,
   path |-> IF d.new_path # NoPath THEN d.new_path ELSE d.old_path,
   binary |-> startsWith(d.diff, <<"B", "i", "n", "a", "r", "y">>)
                \/ EndsDotSvg(PathString(d.new_path))]

\* getDifferences(to, from): nothing is asked for one branch; the request
\* may fail; a comparison at the ceiling is refused
GetDifferences(to, from) ==
  /\ dfTo' = to
  /\ dfFrom' = from
  /\ IF to = from
       THEN dfResult' = [kind |-> "ok", diffs |-> <<>>]
       ELSE \/ dfResult' = [kind |-> "apiError", diffs |-> <<>>]
            \/ dfResult' =
                 IF DiffLimitReached(Len(RemoteDiffs))
                   THEN [kind |-> "diffLimit", diffs |-> <<>>]
                   ELSE [kind |-> "ok",
                         diffs |-> [k \in DOMAIN RemoteDiffs |-> DiffEntry(RemoteDiffs[k])]]
  /\ UNCHANGED <<dfN, dfPat>>
  /\ UNCHANGED <<wfVars, curVars, laVars, ciVars, mkVars, ucVars, rqVars>>

(***************************************************************************)
(* getCommitItems and isFileExists.  A path is the sequence of its         *)
(* characters; the empty sequence stands for a path that is not given.     *)
(***************************************************************************)
\* the files a call may name: the most that one call names
MaxFiles == 2

pAX == <<"a", "/", "x">>

pAY == <<"a", "/", "y">>

pAZ == <<"a", "/", "z">>

pASW == <<"a", "/", "s", "/", "w">>

pBX == <<"b", "/", "x">>

pBZ == <<"b", "/", "z">>

pBQ == <<"b", "/", "q">>

pT == <<"t">>

NoPathGiven == <<>>

\* the files of the branch, as a recursive tree listing names them
TreeFiles == <<pAX, pAZ, pASW, pBQ, pT>>

\* a save, a save that names the path it has, a rename inside the
\* directory, a move to another directory, the same with a leading slash,
\* a second file of the moved directory, a file at the top
FileInputs ==
  { [path |-> pAX, newPath |-> NoPathGiven],
    [path |-> pAX, newPath |-> pAX],
    [path |-> pAX, newPath |-> pAY],
    [path |-> pAX, newPath |-> pBX],
    [path |-> <<"/">> \o pAX, newPath |-> <<"/">> \o pAX],
    [path |-> pAZ, newPath |-> pBZ],
    [path |-> pT, newPath |-> NoPathGiven] }

\* lodash trimStart(path, '/')
RECURSIVE trimStart(_)
trimStart(path) ==
  IF path # <<>> /\ Head(path) = "/" THEN trimStart(Tail(path)) ELSE path

\* the path without its trailing slashes, its first character kept
RECURSIVE DropTrailingSlashes(_)
DropTrailingSlashes(path) ==
  IF Len(path) > 1 /\ path[Len(path)] = "/"
    THEN DropTrailingSlashes(SubSeq(path, 1, Len(path) - 1))
    ELSE path

\* path.dirname: the path up to the last slash that ends a directory name;
\* "." when there is none, "/" when it is the root's
dirname(path) ==
  LET body == DropTrailingSlashes(path)
      slashes == {k \in 2..Len(body) : body[k] = "/"}
      hasRoot == path # <<>> /\ path[1] = "/"
  IN IF path = <<>> THEN <<".">>
     ELSE IF slashes = {} THEN (IF hasRoot THEN <<"/">> ELSE <<".">>)
     ELSE LET end == CHOOSE k \in slashes : \A m \in slashes : m <= k
          IN IF hasRoot /\ end = 2 THEN <<"/", "/">> ELSE SubSeq(body, 1, end - 1)

\* where pattern first occurs in str, 0 when nowhere
IndexOf(str, pattern) ==
  LET at == {k \in 1..(Len(str) - Len(pattern) + 1) :
               SubSeq(str, k, k + Len(pattern) - 1) = pattern}
  IN IF at = {} THEN 0 ELSE CHOOSE k \in at : \A m \in at : k <= m

\* the grave accent, a character that a string here cannot hold
Grave == "grave"

\* the replacement text of String.prototype.replace: "$$" is a dollar,
\* "$&" the match, "$" with a grave accent the text before it and "$'" the
\* text after it; a string pattern has no groups, so every other "$" stands
\* for itself
RECURSIVE GetSubstitution(_, _, _, _)
GetSubstitution(replacement, matched, before, after) ==
  IF replacement = <<>> THEN <<>>
  ELSE IF Head(replacement) = "$" /\ Len(replacement) >= 2
            /\ replacement[2] \in {"$", "&", Grave, "'"}
    THEN (CASE replacement[2] = "$" -> <<"$">>
            [] replacement[2] = "&" -> matched
            [] replacement[2] = Grave -> before
            [] OTHER -> after)
           \o GetSubstitution(SubSeq(replacement, 3, Len(replacement)),
                              matched, before, after)
    ELSE <<Head(replacement)>>
           \o GetSubstitution(Tail(replacement), matched, before, after)

\* String.prototype.replace with a string pattern: its first occurrence
replace(str, pattern, replacement) ==
  LET k == IndexOf(str, pattern)
      before == SubSeq(str, 1, k - 1)
      after == SubSeq(str, k + Len(pattern), Len(str))
  IN IF k = 0 THEN str
     ELSE before \o GetSubstitution(replacement, pattern, before, after) \o after

\* the answers of the remote to an existence probe, as requestText hands
\* them on: the text; an APIError with the status; another error
ProbeAnswers ==
  {[ok |-> TRUE, api |-> FALSE, status |-> 200]}
    \cup [ok : {FALSE}, api : BOOLEAN, status : {404, 500}]

NoError == [ok |-> TRUE, api |-> FALSE, status |-> 0]

\* faulty variant: every failure of the probe counts as absence
isFileExistsLenient(answer) ==
  IF answer.ok
    THEN [thrown |-> FALSE, value |-> TRUE, error |-> NoError]
    ELSE [thrown |-> FALSE, value |-> FALSE, error |-> NoError]

\* isFileExists, on the answer to its probe
isFileExists(answer) ==
  IF answer.ok
    THEN [thrown |-> FALSE, value |-> TRUE, error |-> NoError]
    ELSE IF answer.api /\ answer.status = 404
      THEN [thrown |-> FALSE, value |-> FALSE, error |-> NoError]
      ELSE [thrown |-> TRUE, value |-> FALSE, error |-> answer]

\* the first pass of getCommitItems on one file
Classify(file, fileExists) ==
  LET path == trimStart(file.path)
      oldPath == IF file.newPath # NoPathGiven THEN path ELSE NoPathGiven
  IN IF fileExists
       THEN [action |-> IF file.newPath # NoPathGiven /\ file.newPath # oldPath
                          THEN "move" ELSE "update",
             content |-> TRUE,
             path |-> IF file.newPath # NoPathGiven THEN trimStart(file.newPath) ELSE path,
             oldPath |-> oldPath]
       ELSE [action |-> "create", content |-> TRUE, path |-> path,
             oldPath |-> NoPathGiven]

\* items.filter(i => i.oldPath && i.action === CommitAction.MOVE)
MovedItems(items) ==
  SelectSeq(items, LAMBDA item : item.oldPath # NoPathGiven /\ item.action = "move")

\* the files a recursive listing of dir names: those of the tree under it
ListUnder(dir) ==
  SelectSeq(TreeFiles, LAMBDA f :
    Len(f) > Len(dir) + 1 /\ SubSeq(f, 1, Len(dir) + 1) = dir \o <<"/">>)

\* the items the second pass adds for item, given the listing of its directory
Children(item, children) ==
  LET sourceDir == dirname(item.oldPath)
      destDir == dirname(item.path)
      others == SelectSeq(children, LAMBDA f : f # item.oldPath)
  IN [k \in DOMAIN others |->
        [action |-> "move", content |-> FALSE,
         path |-> replace(others[k], sourceDir, destDir),
         oldPath |-> others[k]]]

\* a probe that is sent and not answered yet, and the result of
\* isFileExists that is not there yet
NotAnswered == [ok |-> FALSE, api |-> FALSE, status |-> 0]

NotKnown == [known |-> FALSE, value |-> FALSE]

Known(value) == [known |-> TRUE, value |-> value]

\* the first pass: the probes of all files are sent together and answered
\* in any order.  One answer: the first probe to throw ends the call with
\* its error; the answer that is the last one makes the items, in the order
\* of the files
CiProbe ==
  /\ ciPc = "probe"
  /\ \E k \in DOMAIN ciFiles : \E answer \in ProbeAnswers :
     \E r \in {isFileExists(answer)} :
       LET exists == [ciExists EXCEPT ![k] = Known(r.value)]
           items == [j \in DOMAIN ciFiles |-> Classify(ciFiles[j], exists[j].value)]
       IN /\ ciProbes[k] = NotAnswered
          /\ ciProbes' = [ciProbes EXCEPT ![k] = answer]
          /\ IF r.thrown
               THEN /\ ciPc' = "failed"
                    /\ ciError' = r.error
                    /\ UNCHANGED <<ciExists, ciItems, ciQueue>>
               ELSE /\ ciExists' = exists
                    /\ ciError' = NoError
                    /\ IF \E j \in DOMAIN exists : ~exists[j].known
                         THEN ciPc' = "probe" /\ UNCHANGED <<ciItems, ciQueue>>
                         ELSE /\ ciItems' = items
                              /\ ciQueue' = MovedItems(items)
                              /\ ciPc' = IF MovedItems(items) = <<>> THEN "done" ELSE "expand"
  /\ UNCHANGED <<ciFiles, ciListed>>
  /\ UNCHANGED <<wfVars, curVars, laVars, dfVars, mkVars, ucVars, rqVars>>

\* one round of the second pass: the directory of a moved item is listed
CiExpand ==
  /\ ciPc = "expand"
  /\ LET item == Head(ciQueue) IN
       \/ /\ ciListed' = Append(ciListed, [dir |-> dirname(item.oldPath), files |-> <<>>])
          /\ ciPc' = "failed"
          /\ ciError' = [ok |-> FALSE, api |-> TRUE, status |-> 500]
          /\ UNCHANGED <<ciItems, ciQueue>>
       \/ \E children \in {ListUnder(dirname(item.oldPath)), <<>>} :
            /\ ciListed' = Append(ciListed, [dir |-> dirname(item.oldPath), files |-> children])
            /\ ciItems' = ciItems \o Children(item, children)
            /\ ciQueue' = Tail(ciQueue)
            /\ ciPc' = IF Tail(ciQueue) = <<>> THEN "done" ELSE "expand"
            /\ UNCHANGED ciError
  /\ UNCHANGED <<ciFiles, ciProbes, ciExists>>
  /\ UNCHANGED <<wfVars, curVars, laVars, dfVars, mkVars, ucVars, rqVars>>

(***************************************************************************)
(* The commit of an update: the items of getCommitItems, and a deletion    *)
(* for every binary file of the comparison that no item names.  Paths are  *)
(* those of the comparison: a stem and an extension.                       *)
(***************************************************************************)
\* the most items getCommitItems returns, and the most entries of the
\* comparison
MaxBuilt == 2

MaxDiffs == 2

PathOf(stem, ext) == [stem |-> stem, ext |-> ext]

\* a changed text, a changed image, an added drawing, a deleted image, a
\* renamed image
RawDiffs ==
  { [old_path |-> PathOf(1, Md), new_path |-> PathOf(1, Md), new_file |-> FALSE,
     deleted_file |-> FALSE, renamed_file |-> FALSE, diff |-> TextPayload],
    [old_path |-> PathOf(2, Png), new_path |-> PathOf(2, Png), new_file |-> FALSE,
     deleted_file |-> FALSE, renamed_file |-> FALSE, diff |-> BinaryPayload],
    [old_path |-> PathOf(3, Svg), new_path |-> PathOf(3, Svg), new_file |-> TRUE,
     deleted_file |-> FALSE, renamed_file |-> FALSE, diff |-> TextPayload],
    [old_path |-> PathOf(4, Png), new_path |-> NoPath, new_file |-> FALSE,
     deleted_file |-> TRUE, renamed_file |-> FALSE, diff |-> BinaryPayload],
    [old_path |-> PathOf(5, Png), new_path |-> PathOf(6, Png), new_file |-> FALSE,
     deleted_file |-> FALSE, renamed_file |-> TRUE, diff |-> BinaryPayload] }

\* items of the caller's files: a text, the changed image, the renamed image
BuiltItems ==
  { [action |-> "update", path |-> PathOf(1, Md), oldPath |-> NoPath, content |-> TRUE],
    [action |-> "create", path |-> PathOf(2, Png), oldPath |-> NoPath, content |-> TRUE],
    [action |-> "update", path |-> PathOf(6, Png), oldPath |-> NoPath, content |-> TRUE] }

\* { action: CommitAction.DELETE, path: diff.newPath }
DeleteItem(diff) ==
  [action |-> "delete", path |-> diff.newPath, oldPath |-> NoPath, content |-> FALSE]

\* items.some(item => item.path === diff.path)
NamedBy(items, diff) == \E k \in DOMAIN items : items[k].path = diff.path

\* the loop that marks files for deletion, over the binary diffs
RECURSIVE MarkDeletions(_, _)
MarkDeletions(items, diffs) ==
  IF diffs = <<>> THEN items
  ELSE MarkDeletions(
         IF NamedBy(items, Head(diffs)) THEN items
         ELSE Append(items, DeleteItem(Head(diffs))),
         Tail(diffs))

\* the items of the commit of an update
UpdateItems(items, diffs) ==
  MarkDeletions(items, SelectSeq(diffs, LAMBDA d : d.binary))

\* editorialWorkflowGit of an update, from its reads to its commit request
MarkAndCommit ==
  /\ mkPc = "built"
  /\ mkCommit' = UpdateItems(mkItems, [k \in DOMAIN mkRaw |-> DiffEntry(mkRaw[k])])
  /\ mkPc' \in {"sent", "failed"}
  /\ UNCHANGED <<mkItems, mkRaw>>
  /\ UNCHANGED <<wfVars, curVars, laVars, dfVars, ciVars, ucVars, rqVars>>

(***************************************************************************)
(* uploadAndCommit on its own: its commit request, and what it makes of    *)
(* the request's failure.                                                  *)
(***************************************************************************)
\* one action of the commit request
CommitActionOf(item) ==
  [action |-> item.action,
   file_path |-> item.path,
   previous_path |-> item.oldPath,
   content |-> item.content]

\* commitParams; an empty start_branch stands for none
CommitParams(items, branch, newBranch) ==
  [req |-> "commit",
   branch |-> branch,
   actions |-> [k \in DOMAIN items |-> CommitActionOf(items[k])],
   start_branch |-> IF newBranch THEN BaseBranch ELSE <<>>]

\* the failures of the commit request: one whose message says
\* "Could not update <branch>", and another
CommitErrors == [kind : {"apiError"}, detail : {"couldNotUpdate", "other"}]

\* message.includes(`Could not update ${branch}`)
Matches(error) == error.detail = "couldNotUpdate"

\* the lookups of throwOnConflictingBranches, as they are sent
BranchLookups(branchName) ==
  LET names == getConflictingBranches(branchName)
  IN [n \in DOMAIN names |->
        [req |-> "getBranch", branch |-> names[n], answer |-> "pending"]]

\* the first of the lookups that found its branch, 0 when none did
FirstFound(sent) ==
  LET found == {k \in DOMAIN sent : sent[k].req = "getBranch" /\ sent[k].answer = "found"}
  IN IF found = {} THEN 0 ELSE CHOOSE k \in found : \A m \in found : k <= m

\* POST repository/commits, and the catch: throwOnConflictingBranches sends
\* its lookups together
UcCommit ==
  /\ ucPc = "commit"
  /\ LET commit == CommitParams(ucItems, DraftBranch, NewBranch(ucOp)) IN
       \/ /\ ucSent' = Append(ucSent, commit)
          /\ ucPc' = "done"
          /\ ucResult' = Ok
          /\ UNCHANGED ucError
       \/ \E error \in CommitErrors :
            /\ ucError' = error
            /\ IF AfterCommitFailure(ucOp, Matches(error)) = "getBranch"
                 THEN /\ ucSent' = Append(ucSent, commit) \o BranchLookups(DraftBranch)
                      /\ ucPc' = "getBranch"
                      /\ UNCHANGED ucResult
                 ELSE /\ ucSent' = Append(ucSent, commit)
                      /\ ucPc' = "done"
                      /\ ucResult' = error
  /\ UNCHANGED <<ucOp, ucItems>>
  /\ UNCHANGED <<wfVars, curVars, laVars, dfVars, ciVars, mkVars, rqVars>>

\* throwOnConflictingBranches: one lookup is answered, the branch found or
\* not (getBranch(b).then(b => b.name).catch(() => '')).  With the last
\* answer the conflict error is thrown when a branch was found, and the
\* error of the commit when none was
UcConflictingBranches ==
  /\ ucPc = "getBranch"
  /\ \E k \in DOMAIN ucSent : \E answer \in {"found", "failed"} :
       LET sent == [ucSent EXCEPT ![k].answer = answer]
           pending == \E m \in DOMAIN sent :
                        sent[m].req = "getBranch" /\ sent[m].answer = "pending"
       IN /\ ucSent[k].req = "getBranch"
          /\ ucSent[k].answer = "pending"
          /\ ucSent' = sent
          /\ IF pending
               THEN UNCHANGED <<ucPc, ucResult>>
               ELSE /\ ucPc' = "done"
                    /\ ucResult' = IF FirstFound(sent) # 0
                                     THEN Err("conflictingBranch") ELSE ucError
  /\ UNCHANGED <<ucOp, ucItems, ucError>>
  /\ UNCHANGED <<wfVars, curVars, laVars, dfVars, ciVars, mkVars, rqVars>>

(***************************************************************************)
(* The addresses of the requests on a pull request.  A URL is kept as its  *)
(* parts: the repository's URL (its path segments), the segment that       *)
(* names the kind of resource, and the pull request's iid.                 *)
(***************************************************************************)
\* the most requests followed
MaxCalls == 2

\* config.repo, split at "/"
Repos == {<<"owner", "site">>, <<"owner", "my site">>, <<"a&b", "site">>}

\* encodeURIComponent, on the parts the repositories have
encodeURIComponent(part) ==
  CASE part = "my site" -> "my%20site"
    [] part = "a&b" -> "a%26b"
    [] OTHER -> part

\* this.repoURL, as the constructor sets it
repoURL(repo) ==
  <<"repos">> \o [k \in DOMAIN repo |-> encodeURIComponent(repo[k])]

\* updatePullRequestLabels: `${this.repoURL}/pull/${pullRequest.iid}`
updatePullRequestLabelsURL(repo, iid) ==
  [repoURL |-> repoURL(repo), segment |-> "pull", iid |-> iid]

\* closePullRequest: `${this.repoURL}/pulll/${pullRequest.iid}`
closePullRequestURL(repo, iid) ==
  [repoURL |-> repoURL(repo), segment |-> "pulll", iid |-> iid]

\* the remote serves a PUT on the pull requests of the repository, each
\* under the segment "pull"
Served(url) ==
  /\ url.repoURL = repoURL(rqRepo)
  /\ url.segment = "pull"
  /\ url.iid \in 1..MaxPRs

\* updatePullRequestLabels(pullRequest, labels)
RqUpdatePullRequestLabels ==
  /\ Len(rqSent) < MaxCalls
  /\ \E iid \in 1..MaxPRs : \E status \in Statuses :
       LET url == updatePullRequestLabelsURL(rqRepo, iid) IN
         rqSent' = Append(rqSent,
           [call |-> "updateLabels", iid |-> iid, method |-> "PUT", url |-> url,
            params |-> <<statusToLabel(status, cmsLabelPrefix)>>,
            accepted |-> Served(url)])
  /\ UNCHANGED rqRepo
  /\ UNCHANGED <<wfVars, curVars, laVars, dfVars, ciVars, mkVars, ucVars>>

\* closePullRequest(pullRequest)
RqClosePullRequest ==
  /\ Len(rqSent) < MaxCalls
  /\ \E iid \in 1..MaxPRs :
       LET url == closePullRequestURL(rqRepo, iid) IN
         rqSent' = Append(rqSent,
           [call |-> "close", iid |-> iid, method |-> "PUT", url |-> url,
            params |-> <<"close">>,
            accepted |-> Served(url)])
  /\ UNCHANGED rqRepo
  /\ UNCHANGED <<wfVars, curVars, laVars, dfVars, ciVars, mkVars, ucVars>>

(***************************************************************************)
(* The specifications.                                                     *)
(***************************************************************************)
\* the remote holds no draft
RemoteEmpty == branchExists = FALSE /\ prs = <<>>

\* the remote holds no draft, or the draft of an earlier save: its branch and
\* its open pull request
RemoteAny ==
  \/ RemoteEmpty
  \/ /\ branchExists = TRUE
     /\ prs = <<[iid |-> 1,
                 source_branch |-> DraftBranch,
                 target_branch |-> BaseBranch,
                 state |-> "opened",
                 labels |-> <<statusToLabel(initialWorkflowStatus, cmsLabelPrefix)>>]>>

\* no operation runs
WfIdle ==
  /\ pc = [p \in Procs |-> "idle"]
  /\ op = [p \in Procs |-> NoOp]
  /\ pull = [p \in Procs |-> NoPull]
  /\ rebase = [p \in Procs |-> NoRebase]
  /\ i = [p \in Procs |-> 0]
  /\ reqs = [p \in Procs |-> <<>>]
  /\ orphans = [p \in Procs |-> <<>>]
  /\ result = [p \in Procs |-> Err("none")]
  /\ nOps = 0

ConfigAny == initialWorkflowStatus \in Statuses

ConfigOne == initialWorkflowStatus = "draft"

CurIdle ==
  /\ lastLink = TreeLink
  /\ lastStatus = 0
  /\ lastHeaders = NoHeaders
  /\ cursor = NoCursor
  /\ files = <<>>
  /\ curResult = "none"

LaIdle ==
  /\ laPc = "idle"
  /\ laLink = 0
  /\ laCursor = NoCursor
  /\ laEntries = <<>>
  /\ laRequested = <<>>
  /\ laResult = <<>>

TreeAny ==
  /\ treeN \in 1..MaxPages
  /\ treePer \in 1..MaxPerPage
  /\ treeLast \in 0..treePer
  /\ treePat \in TreePatterns

TreeOne == treeN = 1 /\ treePer = 1 /\ treeLast = 0 /\ treePat = 0

DfIdle ==
  /\ dfTo = BaseBranch
  /\ dfFrom = BaseBranch
  /\ dfResult = [kind |-> "none", diffs |-> <<>>]

DfAny == dfN \in DiffCounts /\ dfPat \in DiffPatterns

\* getCommitItems is called with the files
CiCalled(called) ==
  /\ ciFiles = called
  /\ ciPc = IF called = <<>> THEN "done" ELSE "probe"
  /\ ciProbes = [k \in DOMAIN called |-> NotAnswered]
  /\ ciExists = [k \in DOMAIN called |-> NotKnown]
  /\ ciItems = <<>>
  /\ ciQueue = <<>>
  /\ ciListed = <<>>
  /\ ciError = NoError

CiAny == \E n \in 0..MaxFiles : \E called \in [1..n -> FileInputs] : CiCalled(called)

CiOne == CiCalled(<<[path |-> pT, newPath |-> NoPathGiven]>>)

\* the reads of an update have returned
MkBuilt(items, raw) ==
  /\ mkItems = items
  /\ mkRaw = raw
  /\ mkPc = "built"
  /\ mkCommit = <<>>

MkAny ==
  \E n \in 0..MaxBuilt : \E m \in 0..MaxDiffs :
    \E items \in [1..n -> BuiltItems] : \E raw \in [1..m -> RawDiffs] :
      MkBuilt(items, raw)

MkOne == MkBuilt(<<>>, <<>>)

\* uploadAndCommit is called by o with the items
UcCalled(o, items) ==
  /\ ucOp = o
  /\ ucItems = items
  /\ ucPc = "commit"
  /\ ucSent = <<>>
  /\ ucError = Ok
  /\ ucResult = Running

UcAny ==
  \E o \in {x \in OpenOps \cup UpdateOps : x.status = "" /\ OneFile(x)} :
    \E n \in 0..MaxBuilt : \E items \in [1..n -> BuiltItems] : UcCalled(o, items)

UcOne == UcCalled(CHOOSE x \in UpdateOps : TRUE, <<>>)

RqAny == rqRepo \in Repos /\ rqSent = <<>>

RqOne == rqRepo = <<"owner", "site">> /\ rqSent = <<>>

DfOne == dfN = 0 /\ dfPat = 0

\* the editorial workflow: callers run operations on one draft side by side
Init == ConfigOne /\ RemoteAny /\ WfIdle /\ CurIdle /\ LaIdle /\ TreeOne /\ DfIdle /\ DfOne /\ CiOne /\ MkOne /\ UcOne /\ RqOne

Next ==
  \/ \E p \in Procs : \E o \in WorkflowOps : Start(p, o)
  \/ \E p \in Procs : GetBranchPullRequest(p)
  \/ \E p \in Procs : RebaseRequest(p)
  \/ \E p \in Procs : RebasePoll(p)
  \/ \E p \in Procs : GetCommitItems(p)
  \/ \E p \in Procs : GetBranchDifferences(p)
  \/ \E p \in Procs : UploadAndCommit(p)
  \/ \E p \in Procs : ThrowOnConflictingBranches(p)
  \/ \E p \in Procs : CreatePullRequest(p)
  \/ \E p \in Procs : UpdatePullRequestLabels(p)
  \/ \E p \in Procs : MergePullRequest(p)
  \/ \E p \in Procs : ClosePullRequest(p)
  \/ \E p \in Procs : DeleteBranch(p)
  \/ RemoteLabelEdit

Spec == Init /\ [][Next]_vars

\* the first save of a draft, under any configured initial status
InitOpen == ConfigAny /\ RemoteAny /\ WfIdle /\ CurIdle /\ LaIdle /\ TreeOne /\ DfIdle /\ DfOne /\ CiOne /\ MkOne /\ UcOne /\ RqOne

NextOpen ==
  \/ \E p \in Procs : \E o \in OpenOps : Start(p, o)
  \/ \E p \in Procs : GetCommitItems(p)
  \/ \E p \in Procs : UploadAndCommit(p)
  \/ \E p \in Procs : ThrowOnConflictingBranches(p)
  \/ \E p \in Procs : CreatePullRequest(p)

SpecOpen == InitOpen /\ [][NextOpen]_vars

\* the operations on a draft that is there, or was
NextLater ==
  \/ \E p \in Procs : \E o \in LaterOps : Start(p, o)
  \/ \E p \in Procs : GetBranchPullRequest(p)
  \/ \E p \in Procs : RebaseRequest(p)
  \/ \E p \in Procs : RebasePoll(p)
  \/ \E p \in Procs : GetCommitItems(p)
  \/ \E p \in Procs : GetBranchDifferences(p)
  \/ \E p \in Procs : UploadAndCommit(p)
  \/ \E p \in Procs : UpdatePullRequestLabels(p)
  \/ \E p \in Procs : MergePullRequest(p)
  \/ \E p \in Procs : ClosePullRequest(p)
  \/ \E p \in Procs : DeleteBranch(p)
  \/ \E p \in Procs : GetPullRequestStatues(p)

SpecLater == Init /\ [][NextLater]_vars

\* one save after the other, of any number of files, moved or not
NextSave ==
  \/ \E o \in SaveOps : Start("p1", o)
  \/ GetBranchPullRequest("p1")
  \/ RebaseRequest("p1")
  \/ RebasePoll("p1")
  \/ GetCommitItems("p1")
  \/ GetBranchDifferences("p1")
  \/ GetCommitItemsOrphaned("p1")
  \/ UploadAndCommit("p1")
  \/ ThrowOnConflictingBranches("p1")
  \/ CreatePullRequest("p1")

SpecSave == Init /\ [][NextSave]_vars

\* rebasePullRequest on its own
InitRebase == ConfigOne /\ RemoteEmpty /\ WfIdle /\ CurIdle /\ LaIdle /\ TreeOne /\ DfIdle /\ DfOne /\ CiOne /\ MkOne /\ UcOne /\ RqOne

NextRebase ==
  \/ \E p \in Procs : StartRebase(p)
  \/ \E p \in Procs : RebaseRequest(p)
  \/ \E p \in Procs : RebasePoll(p)

SpecRebase == InitRebase /\ [][NextRebase]_vars

\* rebasePullRequest when every request is answered in the end and the
\* code after each answer runs
SpecRebaseAnswered ==
  /\ SpecRebase
  /\ \A p \in Procs : WF_vars(RebaseRequest(p) \/ RebasePoll(p))

\* listings and cursor traversals against any remote
NextCursor == ListFiles \/ TraverseCursor

SpecCursor == InitRebase /\ [][NextCursor]_vars

\* listAllFiles against a well-formed listing
InitListAll == ConfigOne /\ RemoteEmpty /\ WfIdle /\ CurIdle /\ LaIdle /\ TreeAny /\ DfIdle /\ DfOne /\ CiOne /\ MkOne /\ UcOne /\ RqOne

NextListAll == ListAllStart \/ ListAllFetch

SpecListAll == InitListAll /\ [][NextListAll]_vars

\* getDifferences against any comparison
InitDiff == ConfigOne /\ RemoteEmpty /\ WfIdle /\ CurIdle /\ LaIdle /\ TreeOne /\ DfIdle /\ DfAny /\ CiOne /\ MkOne /\ UcOne /\ RqOne

NextDiff == \E to \in Branches : \E from \in Branches : GetDifferences(to, from)

SpecDiff == InitDiff /\ [][NextDiff]_vars

\* getCommitItems against any answers of the remote
InitItems == ConfigOne /\ RemoteEmpty /\ WfIdle /\ CurIdle /\ LaIdle /\ TreeOne /\ DfIdle /\ DfOne /\ CiAny /\ MkOne /\ UcOne /\ RqOne

NextItems == CiProbe \/ CiExpand

SpecItems == InitItems /\ [][NextItems]_vars

\* the commit of an update, for any items and any comparison
InitMark == ConfigOne /\ RemoteEmpty /\ WfIdle /\ CurIdle /\ LaIdle /\ TreeOne /\ DfIdle /\ DfOne /\ CiOne /\ MkAny /\ UcOne /\ RqOne

NextMark == MarkAndCommit

SpecMark == InitMark /\ [][NextMark]_vars

\* uploadAndCommit, for any items and any answers of the remote
InitCommit == ConfigOne /\ RemoteEmpty /\ WfIdle /\ CurIdle /\ LaIdle /\ TreeOne /\ DfIdle /\ DfOne /\ CiOne /\ MkOne /\ UcAny /\ RqOne

NextCommit == UcCommit \/ UcConflictingBranches

SpecCommit == InitCommit /\ [][NextCommit]_vars

\* label updates and closes of any pull request, in any repository
InitAddress == ConfigOne /\ RemoteEmpty /\ WfIdle /\ CurIdle /\ LaIdle /\ TreeOne /\ DfIdle /\ DfOne /\ CiOne /\ MkOne /\ UcOne /\ RqAny

NextAddress == RqUpdatePullRequestLabels \/ RqClosePullRequest

SpecAddress == InitAddress /\ [][NextAddress]_vars


(***************************************************************************)
(* The claims.                                                             *)
(***************************************************************************)
IsUpdate(o) == o.name = "persist" /\ o.unpublished

IsOpen(o) == o.name = "persist" /\ ~o.unpublished

Last(s) == s[Len(s)]

\* C1 (Spec): an update submits a commit only after it found a CMS pull
\* request of the draft branch and its rebase ended neither in progress nor
\* with a merge error.  An update that finds no pull request ends with the
\* not-under-workflow error; one whose rebase is left in progress or reports
\* a merge error ends with the timeout or the rebase error; none of the
\* three has issued a commit request.
C1_CommitOnlyAfterRebase ==
  \A p \in Procs : IsUpdate(op[p]) =>
    /\ Issued(p, "commit") =>
         /\ [req |-> "getPulls", ok |-> TRUE] \in Range(reqs[p])
         /\ pull[p].iid \in DOMAIN prs
         /\ prs[pull[p].iid].source_branch = DraftBranch
         /\ \E k \in DOMAIN pull[p].labels : pull[p].labels[k].prefix = cmsLabelPrefix
         /\ [req |-> "rebase", ok |-> TRUE] \in Range(reqs[p])
         /\ ~rebase[p].rebase_in_progress
         /\ rebase[p].merge_error = ""
    /\ result[p].kind \in {"notUnderWorkflow", "timeout", "rebaseError"} =>
         ~Issued(p, "commit")
    /\ (pc[p] = "idle" /\ reqs[p] = <<[req |-> "getPulls", ok |-> TRUE]>>) =>
         result[p].kind = "notUnderWorkflow"
    /\ pc[p] \in {"items", "children", "compare", "commit"} =>
         ~rebase[p].rebase_in_progress /\ rebase[p].merge_error = ""
    /\ (pc[p] = "idle" /\ reqs[p] # <<>> /\ Last(reqs[p]).req \in {"rebase", "poll"}
          /\ Last(reqs[p]).ok) =>
         \/ result[p].kind = "timeout" /\ rebase[p].rebase_in_progress
         \/ /\ result[p].kind = "rebaseError"
            /\ ~rebase[p].rebase_in_progress
            /\ rebase[p].merge_error # ""

\* an update committed after a rebase that took some polls
C1_Witness ==
  \E p \in Procs :
    /\ IsUpdate(op[p])
    /\ result[p].kind = "ok"
    /\ Count(p, "poll") >= 2
    /\ Last(reqs[p]) = [req |-> "commit", ok |-> TRUE]

\* C2 (SpecRebase): rebasePullRequest makes at most 10 status polls: once
\* the 10th poll is answered the operation is over, with the timeout error
\* when that answer still says in progress and with success when it says
\* done without a merge error.
C2_AtMostTenPolls ==
  \A p \in Procs : op[p].name = "rebase" =>
    /\ Count(p, "poll") <= 10
    /\ (Count(p, "poll") = 10 /\ Last(reqs[p]).ok) =>
         /\ pc[p] = "idle"
         /\ rebase[p].rebase_in_progress => result[p].kind = "timeout"
         /\ (~rebase[p].rebase_in_progress /\ rebase[p].merge_error = "") =>
              result[p].kind = "ok"

\* C3 (SpecRebase): once an answer carries a merge error, rebasePullRequest
\* is over and has failed with the rebase error of that merge error,
\* whatever the answer's in-progress flag: no poll follows.
C3_MergeErrorEndsAtOnce ==
  \A p \in Procs : (op[p].name = "rebase" /\ rebase[p].merge_error # "") =>
    /\ pc[p] = "idle"
    /\ result[p] = [kind |-> "rebaseError", detail |-> rebase[p].merge_error]

\* C4 (Spec): every pull request carries exactly one CMS label at all
\* times, and a status change that succeeds leaves on its pull request the
\* label of the new status as the only CMS label, with every other label
\* the pull request had when it was read.
C4_StatusLabelReplaced ==
  /\ [](\A k \in DOMAIN prs :
          Cardinality({m \in DOMAIN prs[k].labels :
                         prs[k].labels[m].prefix = cmsLabelPrefix}) = 1)
  /\ [][\A p \in Procs :
          (pc[p] = "putLabels" /\ pc'[p] = "idle" /\ result'[p].kind = "ok") =>
            LET after == prs'[pull[p].iid].labels IN
              /\ \A m \in DOMAIN after :
                   after[m].prefix = cmsLabelPrefix =>
                     after[m] = [prefix |-> cmsLabelPrefix, name |-> op[p].status]
              /\ \E m \in DOMAIN after : after[m].prefix = cmsLabelPrefix
              /\ \A m \in DOMAIN pull[p].labels :
                   pull[p].labels[m].prefix # cmsLabelPrefix =>
                     pull[p].labels[m] \in Range(after)]_vars

\* two status changes that read the same labels of the same pull request,
\* another label among them, before either wrote, and both succeeded
C4_Witness ==
  \E p, q \in Procs :
    /\ p # q
    /\ op[p].name = "updateStatus" /\ op[q].name = "updateStatus"
    /\ op[p].status # op[q].status
    /\ result[p].kind = "ok" /\ result[q].kind = "ok"
    /\ pull[p] = pull[q]
    /\ \E m \in DOMAIN pull[p].labels : pull[p].labels[m].prefix = ""
    /\ \E m \in DOMAIN prs[pull[p].iid].labels :
         prs[pull[p].iid].labels[m].prefix = ""

\* C5 as stated (SpecOpen): every pull request carries the label of the
\* configured initial status and no other, whatever the persist options.
C5_AlwaysInitialStatus ==
  \A k \in DOMAIN prs :
    prs[k].labels = <<[prefix |-> cmsLabelPrefix, name |-> initialWorkflowStatus]>>

\* C5 as amended (SpecOpen): the pull request a first save creates goes from
\* the draft branch to the base branch, is open, and carries exactly one
\* label: that of the status of the persist options when they give one, and
\* that of the configured initial status otherwise.
C5_OpenStatusLabel ==
  [][\A p \in Procs :
       (pc[p] = "createPull" /\ pc'[p] = "idle" /\ result'[p].kind = "ok") =>
         /\ IsOpen(op[p])
         /\ Len(prs') = Len(prs) + 1
         /\ \A k \in DOMAIN prs : prs'[k] = prs[k]
         /\ Last(prs').source_branch = DraftBranch
         /\ Last(prs').target_branch = BaseBranch
         /\ Last(prs').state = "opened"
         /\ Last(prs').labels =
              <<[prefix |-> cmsLabelPrefix,
                 name |-> IF op[p].status # "" THEN op[p].status
                          ELSE initialWorkflowStatus]>>]_vars

\* a first save with a status of its own, other than the configured one
C5_Witness ==
  \E p \in Procs :
    /\ IsOpen(op[p])
    /\ op[p].status \notin {"", initialWorkflowStatus}
    /\ result[p].kind = "ok"
    /\ prs # <<>>
    /\ Last(prs).labels = <<[prefix |-> cmsLabelPrefix, name |-> op[p].status]>>

\* C6 (Spec): a delete issues no merge request; its branch deletion follows
\* at once a close request that succeeded, on the pull request it found,
\* which is closed by then; a close request that fails is the last request
\* of the operation, which ends with the error.
C6_CloseThenDeleteBranch ==
  \A p \in Procs : op[p].name = "delete" =>
    /\ ~Issued(p, "merge")
    /\ \A k \in DOMAIN reqs[p] :
         /\ reqs[p][k].req = "deleteBranch" =>
              /\ k > 1
              /\ reqs[p][k - 1] = [req |-> "close", ok |-> TRUE]
              /\ prs[pull[p].iid].state = "closed"
         /\ reqs[p][k].req = "close" =>
              /\ k > 1
              /\ reqs[p][k - 1] = [req |-> "getPulls", ok |-> TRUE]
         /\ reqs[p][k] = [req |-> "close", ok |-> FALSE] =>
              /\ k = Len(reqs[p])
              /\ pc[p] = "idle"
              /\ result[p].kind = "apiError"

\* a delete that closed the pull request and deleted the branch
C6_Witness ==
  \E p \in Procs :
    /\ op[p].name = "delete"
    /\ result[p].kind = "ok"
    /\ reqs[p] = <<[req |-> "getPulls", ok |-> TRUE], [req |-> "close", ok |-> TRUE],
                   [req |-> "deleteBranch", ok |-> TRUE]>>
    /\ ~branchExists
    /\ prs[pull[p].iid].state = "closed"


\* the Link header of the cursor's response names relation r
Linked(r) == \E k \in DOMAIN lastHeaders.link : lastHeaders.link[k].rel = r

\* C7 as stated (SpecCursor): of a cursor derived from headers that give a
\* page p and a page count n (1 <= p <= n), next and last are actions
\* exactly when p < n, prev and first exactly when p > 1.
C7_ActionsIffInRange ==
  LET p == cursor.meta.page
      n == cursor.meta.pageCount
  IN (/\ curResult \in {"listed", "traversed"}
      /\ ~p.nan /\ ~n.nan
      /\ 1 <= p.val /\ p.val <= n.val) =>
       /\ "next" \in cursor.actions <=> p.val < n.val
       /\ "last" \in cursor.actions <=> p.val < n.val
       /\ "prev" \in cursor.actions <=> p.val > 1
       /\ "first" \in cursor.actions <=> p.val > 1

\* C7 as amended (SpecCursor): of a cursor derived from headers with page p
\* and page count n, next and last are actions exactly when p < n and the
\* Link header names the relation, prev and first exactly when p > 1 and
\* the Link header names the relation.
C7_ActionsIffLinkedInRange ==
  LET p == cursor.meta.page
      n == cursor.meta.pageCount
  IN /\ p = parseInt(lastHeaders.page)
     /\ n = parseInt(lastHeaders.pageCount)
     /\ "next" \in cursor.actions <=> (Linked("next") /\ Lt(p, n))
     /\ "last" \in cursor.actions <=> (Linked("last") /\ Lt(p, n))
     /\ "prev" \in cursor.actions <=> (Linked("prev") /\ Gt(p, Num(1)))
     /\ "first" \in cursor.actions <=> (Linked("first") /\ Gt(p, Num(1)))

\* a cursor of page 2 of 3 whose response links prev and last only
C7_Witness ==
  /\ curResult = "listed"
  /\ cursor.meta.page = Num(2)
  /\ cursor.meta.pageCount = Num(3)
  /\ cursor.actions = {"prev", "last"}
  /\ ~Linked("next") /\ ~Linked("first")

\* C8 (SpecCursor): the cursor the caller holds offers next or last only
\* with page < pageCount, prev or first only with page > 1, and every
\* action it offers has a link.
C8_OfferedActionsReachable ==
  /\ ("next" \in cursor.actions \/ "last" \in cursor.actions) =>
       (~cursor.meta.page.nan /\ ~cursor.meta.pageCount.nan
          /\ cursor.meta.page.val < cursor.meta.pageCount.val)
  /\ ("prev" \in cursor.actions \/ "first" \in cursor.actions) =>
       (~cursor.meta.page.nan /\ cursor.meta.page.val > 1)
  /\ cursor.actions \subseteq Rels
  /\ \A a \in cursor.actions : a \in DOMAIN cursor.links

\* a cursor got by a traversal, with a link it does not offer as an action
C8_Witness ==
  /\ curResult = "traversed"
  /\ cursor.actions # {}
  /\ \E r \in DOMAIN cursor.links : r \notin cursor.actions

\* the files of pages 1..k of the listing, in page order
RECURSIVE FilesUpTo(_)
FilesUpTo(k) ==
  IF k = 0 THEN <<>>
  ELSE FilesUpTo(k - 1) \o SelectSeq(PageEntries(k), LAMBDA e : e.type = "blob")

\* C9 (SpecListAll): listAllFiles requests the pages 1, 2, ... in order,
\* each once and none beyond the last; it never fails; when it returns it
\* has requested exactly the pages 1..treeN and returns the file entries of
\* all of them, each once, in page order, without the directories.
C9_ListAllPagesOnce ==
  /\ laPc # "failed"
  /\ laRequested = [k \in 1..Len(laRequested) |-> k]
  /\ Len(laRequested) <= treeN
  /\ laPc = "fetch" => laLink = Len(laRequested) + 1
  /\ laPc = "done" =>
       /\ Len(laRequested) = treeN
       /\ laResult = FilesUpTo(treeN)
       /\ \A k \in DOMAIN laResult : laResult[k].type = "blob"

\* a listing of five pages, with directories among its entries, read to its end
C9_Witness ==
  /\ laPc = "done"
  /\ treeN = 5
  /\ laRequested = <<1, 2, 3, 4, 5>>
  /\ Len(laResult) > 0
  /\ Len(laResult) < Len(laEntries)

\* C10 (SpecDiff): getDifferences of two distinct branches whose request is
\* answered fails with the diff-limit error and returns nothing when the
\* comparison reports 1000 changed paths (or more), and succeeds with one
\* entry per changed path, in order, when it reports 999 (or fewer).
C10_DiffLimit ==
  (dfTo # dfFrom /\ dfResult.kind \notin {"none", "apiError"}) =>
    /\ dfN >= 1000 => dfResult = [kind |-> "diffLimit", diffs |-> <<>>]
    /\ dfN <= 999 =>
         /\ dfResult.kind = "ok"
         /\ Len(dfResult.diffs) = dfN
         /\ \A k \in 1..dfN :
              /\ dfResult.diffs[k].oldPath = RemoteDiff(k).old_path
              /\ dfResult.diffs[k].newPath = RemoteDiff(k).new_path

\* a comparison of exactly 1000 changed paths, refused
C10_Witness ==
  /\ dfTo # dfFrom
  /\ dfN = 1000
  /\ dfResult.kind = "diffLimit"

\* C11 as stated (SpecCursor): a tree listing hands its caller a normal
\* result only when its request was answered with success; a request
\* answered 404 ends in an error.
C11_FailedListingFails ==
  curResult \in {"listed", "traversed"} => lastStatus = 200

\* C12 (SpecItems): isFileExists returns true when its probe succeeds and
\* false when the probe fails with an API error of status 404; every other
\* failure of the probe is thrown on as it is, and no value is returned.
C12_ExistsOr404 ==
  \A k \in DOMAIN ciProbes :
    LET answer == ciProbes[k] IN
      /\ answer = NotAnswered => ciExists[k] = NotKnown
      /\ answer.ok => ciExists[k] = Known(TRUE)
      /\ (~answer.ok /\ answer.api /\ answer.status = 404) =>
           ciExists[k] = Known(FALSE)
      /\ (answer # NotAnswered /\ ~answer.ok
            /\ ~(answer.api /\ answer.status = 404)) =>
           /\ ciExists[k] = NotKnown
           /\ ciPc = "failed"
           /\ ciError = answer
           /\ ciItems = <<>>

\* the probe of the first file answered 404 by the API, then that of the
\* second failed with a 404 that is no API error
C12_Witness ==
  /\ ciPc = "failed"
  /\ Len(ciFiles) = 2
  /\ ciExists[1] = Known(FALSE)
  /\ ciProbes[1] = [ok |-> FALSE, api |-> TRUE, status |-> 404]
  /\ ciProbes[2] = [ok |-> FALSE, api |-> FALSE, status |-> 404]
  /\ ciError = [ok |-> FALSE, api |-> FALSE, status |-> 404]

\* the file asks for a rename: it names a new path that is not its path
RenameRequested(file) == file.newPath # NoPathGiven /\ file.newPath # file.path

\* C13 as stated (SpecItems): the first pass of getCommitItems makes one
\* item of each file, in order: create at its path for a file that is not
\* on the branch, update at its own path for one that is and asks for no
\* rename, move from its path to the new path, with its content, for one
\* that is and asks for a rename.
C13_ClassifiedOnce ==
  /\ ciPc = "probe" => ciItems = <<>>
  /\ ciPc \in {"expand", "done"} => Len(ciItems) >= Len(ciFiles)
  /\ \A k \in DOMAIN ciFiles : ciItems # <<>> =>
       LET file == ciFiles[k]
           item == ciItems[k]
       IN /\ ciExists[k].known
          /\ ~ciExists[k].value =>
               item.action = "create" /\ item.path = trimStart(file.path)
          /\ (ciExists[k].value /\ ~RenameRequested(file)) =>
               item.action = "update" /\ item.path = trimStart(file.path)
          /\ (ciExists[k].value /\ RenameRequested(file)) =>
               /\ item.action = "move"
               /\ item.oldPath = trimStart(file.path)
               /\ item.path = trimStart(file.newPath)
               /\ item.content

\* path lies under the directory dir
Under(path, dir) ==
  Len(path) > Len(dir) + 1 /\ SubSeq(path, 1, Len(dir) + 1) = dir \o <<"/">>

\* the first-pass items of a finished call, and the ones the second pass added
FirstPass == SubSeq(ciItems, 1, Len(ciFiles))

SecondPass == SubSeq(ciItems, Len(ciFiles) + 1, Len(ciItems))

\* C14 as stated (SpecItems): when getCommitItems returns, the directory S
\* of every moved file has been listed; every other file listed under S
\* has a move item whose new path is its old path with S rewritten to the
\* moved file's new directory D; every item the second pass added is such a
\* move, of a file under S to a path under D that differs from its old path.
C14_SubtreeMoved ==
  ciPc = "done" =>
    LET moved == MovedItems(FirstPass)
        S(j) == dirname(moved[j].oldPath)
        D(j) == dirname(moved[j].path)
    IN /\ Len(ciListed) = Len(moved)
       /\ \A j \in DOMAIN moved :
            /\ ciListed[j].dir = S(j)
            /\ \A f \in Range(ciListed[j].files) :
                 f # moved[j].oldPath =>
                   \E a \in Range(SecondPass) :
                     /\ a.action = "move"
                     /\ a.oldPath = f
                     /\ a.path = D(j) \o SubSeq(f, Len(S(j)) + 1, Len(f))
       /\ \A a \in Range(SecondPass) :
            /\ a.action = "move"
            /\ a.path # a.oldPath
            /\ \E j \in DOMAIN moved : Under(a.oldPath, S(j)) /\ Under(a.path, D(j))

\* the binary entries of the comparison, as getDifferences returns them
BinaryDiffs ==
  SelectSeq([k \in DOMAIN mkRaw |-> DiffEntry(mkRaw[k])], LAMBDA d : d.binary)

\* the items the commit holds after those of getCommitItems
Marked == SubSeq(mkCommit, Len(mkItems) + 1, Len(mkCommit))

\* C15 as stated (SpecMark): the commit of an update begins with the items
\* built from the caller's files and holds besides them one delete item
\* for each path of a binary entry of the comparison that is the path of
\* no built item, and nothing else.
C15_BinaryDeletions ==
  mkPc # "built" =>
    /\ Len(mkCommit) >= Len(mkItems)
    /\ SubSeq(mkCommit, 1, Len(mkItems)) = mkItems
    /\ \A k \in DOMAIN Marked :
         /\ Marked[k].action = "delete"
         /\ \E d \in Range(BinaryDiffs) : d.path = Marked[k].path
         /\ \A j \in DOMAIN mkItems : mkItems[j].path # Marked[k].path
         /\ \A j \in DOMAIN Marked : Marked[j].path = Marked[k].path => j = k
    /\ \A d \in Range(BinaryDiffs) :
         (\A j \in DOMAIN mkItems : mkItems[j].path # d.path) =>
           \E k \in DOMAIN Marked : Marked[k].path = d.path

\* the commit request of uploadAndCommit is as it should be: one, sent
\* first, to the branch, with an action for every item in order and with the
\* base branch as start branch exactly when the branch is to be made; and a
\* call that returns has not failed
OneCommit ==
  LET commits == SelectSeq(ucSent, LAMBDA r : r.req = "commit")
  IN /\ Len(commits) = IF ucPc = "commit" THEN 0 ELSE 1
     /\ \A k \in DOMAIN commits :
          /\ k = 1 /\ ucSent[1] = commits[1]
          /\ commits[k].branch = DraftBranch
          /\ Len(commits[k].actions) = Len(ucItems)
          /\ \A j \in DOMAIN ucItems :
               /\ commits[k].actions[j].action = ucItems[j].action
               /\ commits[k].actions[j].file_path = ucItems[j].path
          /\ commits[k].start_branch = BaseBranch <=> IsOpen(ucOp)
          /\ ~IsOpen(ucOp) => commits[k].start_branch = <<>>
     /\ ucResult = Ok => (ucPc = "done" /\ ucError = Ok)
     /\ ucPc = "getBranch" => (ucError # Ok /\ IsOpen(ucOp) /\ ucResult = Running)

\* the branch lookups of the call
Asked == SelectSeq(ucSent, LAMBDA r : r.req = "getBranch")

CommitOrThrowOnPrefix ==
  /\ OneCommit
  /\ \A k \in DOMAIN Asked :
       /\ Asked[k].branch # DraftBranch
       /\ Len(Asked[k].branch) < Len(DraftBranch)
       /\ SubSeq(DraftBranch, 1, Len(Asked[k].branch) + 1) = Asked[k].branch \o <<"/">>
       /\ \A m \in DOMAIN Asked : Asked[m].branch = Asked[k].branch => m = k
  /\ (ucPc = "done" /\ ucError # Ok) =>
       IF IsOpen(ucOp) /\ ucError.detail = "couldNotUpdate"
         THEN /\ Len(Asked) =
                   Cardinality({n \in DOMAIN DraftBranch : DraftBranch[n] = "/"})
              /\ \A k \in DOMAIN Asked : Asked[k].answer # "pending"
              /\ ucResult =
                   IF \E k \in DOMAIN Asked : Asked[k].answer = "found"
                     THEN Err("conflictingBranch") ELSE ucError
         ELSE Len(Asked) = 0 /\ ucResult = ucError

\* a first save of two items whose commit could not update the branch: of
\* the two branches asked for, the second is there
PrefixFound ==
  /\ IsOpen(ucOp)
  /\ Len(ucItems) = 2
  /\ ucPc = "done"
  /\ ucError.detail = "couldNotUpdate"
  /\ Len(Asked) = 2
  /\ Asked[1].answer = "failed"
  /\ Asked[2].answer = "found"
  /\ ucResult = Err("conflictingBranch")

\* the draft's pull request was merged or closed and none is open
NoOpenPullLeft ==
  /\ \E k \in DOMAIN prs :
       prs[k].source_branch = DraftBranch /\ prs[k].state \in {"merged", "closed"}
  /\ \A k \in DOMAIN prs :
       prs[k].source_branch = DraftBranch => prs[k].state # "opened"

\* C17 (SpecLater): once the draft's pull request is merged or closed and no
\* pull request of the branch is open, an update, change of status,
\* publish, delete or status query that then looks for the pull request
\* ends there: its only request is the listing of the pull requests, the
\* remote is left as it was, and when the listing is answered the error
\* is the one of an entry that is not under editorial workflow.
C17_TerminalAfterMergeOrClose ==
  [][\A p \in Procs :
      (pc[p] = "getPulls" /\ pc'[p] # "getPulls" /\ NoOpenPullLeft) =>
        /\ op[p] \in LaterOps
        /\ pc'[p] = "idle"
        /\ \A k \in DOMAIN reqs'[p] : reqs'[p][k].req = "getPulls"
        /\ Len(reqs'[p]) = 1
        /\ result'[p].kind # "ok"
        /\ reqs'[p][1].ok => result'[p] = Err("notUnderWorkflow")
        /\ prs' = prs
        /\ branchExists' = branchExists]_vars

\* after a publish that merged the pull request, a second publish found no
\* pull request
C17_Witness ==
  /\ NoOpenPullLeft
  /\ \E p \in Procs : \E q \in Procs :
       /\ op[q].name = "publish" /\ result[q] = Ok
       /\ op[p].name = "publish" /\ result[p] = Err("notUnderWorkflow")
       /\ reqs[p] = <<[req |-> "getPulls", ok |-> TRUE]>>

\* every request of p so far was answered
AllAnswered(p) == \A k \in DOMAIN reqs[p] : reqs[p][k].ok

\* C18 (SpecRebaseAnswered): rebasePullRequest ends whatever the remote
\* answers: it never makes more than PollLimit + 1 status polls, however
\* long the remote says in progress; every call that has started comes to
\* its end; and a call whose requests were all answered ends in success,
\* in the timeout error or in the rebase error.
C18_RebaseTerminates ==
  /\ [](\A p \in Procs : op[p].name = "rebase" =>
         /\ Count(p, "poll") <= PollLimit + 1
         /\ (pc[p] = "idle" /\ AllAnswered(p)) =>
              result[p].kind \in {"ok", "timeout", "rebaseError"})
  /\ \A p \in Procs : (pc[p] # "idle") ~> (pc[p] = "idle")

\* a call that the remote kept answering with in progress, over after its
\* last poll with the timeout error
C18_Witness ==
  \E p \in Procs :
    /\ op[p].name = "rebase"
    /\ AllAnswered(p)
    /\ Count(p, "poll") = PollLimit + 1
    /\ rebase[p].rebase_in_progress
    /\ pc[p] = "idle"
    /\ result[p].kind = "timeout"

\* an open pull request of the draft branch that carries a CMS label
OpenCMSPull ==
  \E k \in DOMAIN prs :
    /\ prs[k].state = "opened"
    /\ prs[k].source_branch = DraftBranch
    /\ CMSLabelCount(prs[k].labels) > 0

\* C19 (Spec): whenever no operation is in progress, the draft branch is
\* there exactly when an open pull request with a CMS label is there for
\* it, whichever requests of the operations so far have failed.
C19_BranchIffOpenPull ==
  (\A p \in Procs : pc[p] = "idle") => (branchExists <=> OpenCMSPull)

\* the open pull requests of the draft branch
OpenPulls == {k \in DOMAIN prs :
               prs[k].state = "opened" /\ prs[k].source_branch = DraftBranch}

\* C20 (SpecOpen): of the first saves of one content key that run side by
\* side, on a remote that refuses the commit that would create a branch
\* that is there, at most one sends the request that creates the pull
\* request, at most one pull request of the branch is ever open, and of two
\* callers' saves at most one succeeds: a save whose commit was refused
\* ends in an error without asking for a pull request.
C20_OneOpenWins ==
  /\ Cardinality({p \in Procs : Issued(p, "createPull")}) <= 1
  /\ Cardinality(OpenPulls) <= 1
  /\ Cardinality({p \in Procs : result[p] = Ok}) <= 1
  /\ \A p \in Procs :
       (IsOpen(op[p]) /\ [req |-> "commit", ok |-> FALSE] \in Range(reqs[p])) =>
         /\ ~Issued(p, "createPull")
         /\ pc[p] = "idle" => result[p].kind \in {"apiError", "conflictingBranch"}

\* two first saves side by side: one has made the branch and is about to
\* ask for the pull request, the other's commit was refused and it has
\* ended in an error
C20_Witness ==
  \E p \in Procs : \E q \in Procs :
    /\ IsOpen(op[p]) /\ IsOpen(op[q])
    /\ pc[p] = "createPull"
    /\ [req |-> "commit", ok |-> TRUE] \in Range(reqs[p])
    /\ [req |-> "commit", ok |-> FALSE] \in Range(reqs[q])
    /\ pc[q] = "idle"
    /\ result[q].kind \in {"apiError", "conflictingBranch"}

\* the path in the tree that an item takes its file from
SourcePath(item) ==
  IF item.oldPath # NoPathGiven THEN item.oldPath ELSE item.path

\* the files of the call name different paths
DistinctFiles ==
  \A j \in DOMAIN ciFiles : \A k \in DOMAIN ciFiles :
    trimStart(ciFiles[j].path) = trimStart(ciFiles[k].path) => j = k

\* C21 as stated (SpecItems): when getCommitItems returns for files of
\* different paths, no two of its items take their file from the same
\* path, and the second pass has listed one directory for each moved item
\* of the first pass and none for an item it added itself.
C21_OneItemPerSource ==
  (ciPc = "done" /\ DistinctFiles) =>
    /\ \A j \in DOMAIN ciItems : \A k \in DOMAIN ciItems :
         SourcePath(ciItems[j]) = SourcePath(ciItems[k]) => j = k
    /\ Len(ciListed) = Len(MovedItems(FirstPass))

\* C22 as stated (SpecAddress): a close request goes to the URL that the
\* label update of the same pull request goes to (the repository's URL,
\* the segment of the pull requests, the pull request's iid), so a remote
\* that accepts a label update of a pull request accepts its close.
C22_CloseSameResource ==
  \A k \in DOMAIN rqSent : rqSent[k].call = "close" =>
    /\ rqSent[k].url = updatePullRequestLabelsURL(rqRepo, rqSent[k].iid)
    /\ \A j \in DOMAIN rqSent :
         (rqSent[j].call = "updateLabels" /\ rqSent[j].iid = rqSent[k].iid) =>
           /\ rqSent[j].url = rqSent[k].url
           /\ rqSent[j].accepted => rqSent[k].accepted

====
